---- MODULE Spec2Model ----
(***************************************************************************)
(* A model of the repository state engine of lib/src/repo.rs: the view,    *)
(* the mutable transaction (MutableRepo), the operation log and the        *)
(* op-head set.  The commit backend is a fixed table of commit data; the   *)
(* backend store is the set of commits written so far.                     *)
(***************************************************************************)
EXTENDS Integers, FiniteSets, Sequences, TLC

VARIABLES
    store,      \* backend: ids of the commits written
    viewStore,  \* OpStore: the views written (content-addressed)
    opStore,    \* OpStore: operation id -> operation, for the operations written
    opHeads,    \* OpHeadsStore: the set of current op-head ids
    pc,         \* per process: where it stands
    repo,       \* per process: the op id of its ReadonlyRepo snapshot
    mr,         \* per process: its MutableRepo (staged view, index, records)
    fin,        \* per process: what a finalize or an op-head merge has in hand
    last,       \* per process: the last staged mutation (observation only)
    steps,      \* staged mutations made so far, over all transactions
    started,    \* transactions started so far
    everHead,   \* every op id that was ever a member of opHeads (history)
    rb,         \* the repository a descendant rebase or a parallelize works on
    ro,         \* a ReadonlyRepo snapshot's index cache and the threads using it
    res,        \* `jj resolve` on one conflicted file: the file, the tool, the output
    fs          \* the repository directory on disk and the RepoLoader opening it

vars == <<store, viewStore, opStore, opHeads, pc, repo, mr, fin, last, steps, started,
          everHead, rb, ro, res, fs>>

-----------------------------------------------------------------------------
(* Bounds *)

\* staged mutations over a whole behaviour of Spec
MaxSteps == 2
\* transactions started over a whole behaviour
MaxTx == 2
\* staged branch moves per transaction in SpecOps
MaxMoves == 1
\* merges of op heads written over a whole behaviour of SpecOps
MaxMerges == 1

\* rewrites and abandonments a transaction records before it rebases
MaxRecords == 2

\* commits, the root aside, of the repositories drawn in full
MaxSmall == 3

\* calls of index() by one thread
MaxCalls == 2
\* calls of reindex() on one snapshot
MaxReindex == 1

\* the longest run of marker characters in the contents of a conflicted file
MaxRun == 7
\* writes of the output file by one run of the merge tool
MaxWrites == 1
\* conflicted files of the commit that `jj resolve` runs over
MaxFiles == 2
\* times a repository directory is opened
MaxOpens == 2

-----------------------------------------------------------------------------
(* The commit backend *)

root_commit_id == 0

\* The commit data the backend can be asked to write.  Commit 1 is the
\* checkout commit ReadonlyRepo::init writes; 4 and 5 are the open commits
\* CommitBuilder::for_open_commit makes on top of the closed commits 2 and 0.
CommitIds == 0..5

CommitData ==
    [c \in CommitIds |->
        CASE c = 0 -> [parents |-> <<>>,  is_open |-> FALSE, is_empty |-> TRUE]
          [] c = 1 -> [parents |-> <<0>>, is_open |-> TRUE,  is_empty |-> TRUE]
          [] c = 2 -> [parents |-> <<0>>, is_open |-> FALSE, is_empty |-> FALSE]
          [] c = 3 -> [parents |-> <<2>>, is_open |-> TRUE,  is_empty |-> FALSE]
          [] c = 4 -> [parents |-> <<2>>, is_open |-> TRUE,  is_empty |-> TRUE]
          [] c = 5 -> [parents |-> <<0>>, is_open |-> TRUE,  is_empty |-> TRUE]]

Range(s) == {s[i] : i \in DOMAIN s}

parent_ids(c) == Range(CommitData[c].parents)

is_open(c) == CommitData[c].is_open

is_empty(c) == CommitData[c].is_empty

\* the commits a client may hand to write_commit
UserCommits == {2, 3}

\* CommitBuilder::for_open_commit(parent): a new open commit on a closed one
for_open_commit(c) == IF c = 2 THEN 4 ELSE 5

RECURSIVE AncestorsOf(_)
AncestorsOf(c) ==
    {c} \cup UNION {AncestorsOf(p) : p \in parent_ids(c)}

is_ancestor(a, b) == a \in AncestorsOf(b)

ProperAncestor(a, b) == a # b /\ is_ancestor(a, b)

\* Index::heads: the members of S that are no proper ancestor of another
heads(S) == {c \in S : ~ \E d \in S : ProperAncestor(c, d)}

-----------------------------------------------------------------------------
(* RefTarget: multisets of commit ids are functions CommitIds -> Nat *)

NoIds == [c \in CommitIds |-> 0]

Only(c) == [d \in CommitIds |-> IF d = c THEN 1 ELSE 0]

RECURSIVE SumOver(_, _)
SumOver(f, S) ==
    IF S = {} THEN 0
    ELSE LET c == CHOOSE x \in S : TRUE IN f[c] + SumOver(f, S \ {c})

Size(ms) == SumOver(ms, CommitIds)

Plus(a, b) == [c \in CommitIds |-> a[c] + b[c]]

Minus(a, b) == [c \in CommitIds |-> IF a[c] > b[c] THEN a[c] - b[c] ELSE 0]

Min(x, y) == IF x < y THEN x ELSE y

\* the union of two multisets
Union(a, b) == [c \in CommitIds |-> IF a[c] > b[c] THEN a[c] ELSE b[c]]

Absent == [kind |-> "absent", removes |-> NoIds, adds |-> NoIds]

Normal(c) == [kind |-> "normal", removes |-> NoIds, adds |-> Only(c)]

Conflict(removes, adds) == [kind |-> "conflict", removes |-> removes, adds |-> adds]

\* cancel the ids that are both added and removed, then collapse
simplify(removes, adds) ==
    LET both == [c \in CommitIds |-> Min(removes[c], adds[c])]
        r    == Minus(removes, both)
        a    == Minus(adds, both)
    IN  IF Size(a) = 0 /\ Size(r) = 0 THEN Absent
        ELSE IF Size(a) = 1 /\ Size(r) = 0
             THEN Normal(CHOOSE c \in CommitIds : a[c] = 1)
             ELSE Conflict(r, a)

normalized(t) == simplify(t.removes, t.adds)

\* merge_ref(base_t, self_t, other_t) of the view's three-way merge
merge_ref(base_t, self_t, other_t) ==
    IF self_t = base_t THEN other_t
    ELSE IF other_t = base_t THEN self_t
    ELSE simplify(Minus(Union(self_t.removes, other_t.removes), base_t.removes),
                  Minus(Union(self_t.adds, other_t.adds), base_t.adds))

refIds(t) == {c \in CommitIds : t.adds[c] > 0 \/ t.removes[c] > 0}

-----------------------------------------------------------------------------
(* View *)

BranchNames == {"main", "dev"}

TagNames == {"v1"}

GitRefNames == {"refs/heads/main"}

\* the view ReadonlyRepo::init writes with the root operation
root_view ==
    [head_ids        |-> {1},
     public_head_ids |-> {root_commit_id},
     checkout        |-> 1,
     branches        |-> [n \in BranchNames |-> Absent],
     tags            |-> [n \in TagNames |-> Absent],
     git_refs        |-> [n \in GitRefNames |-> Absent]]

view_add_head(v, id) == [v EXCEPT !.head_ids = @ \cup {id}]

view_remove_head(v, id) == [v EXCEPT !.head_ids = @ \ {id}]

view_add_public_head(v, id) == [v EXCEPT !.public_head_ids = @ \cup {id}]

view_remove_public_head(v, id) == [v EXCEPT !.public_head_ids = @ \ {id}]

view_set_checkout(v, id) == [v EXCEPT !.checkout = id]

view_set_local_branch(v, name, target) ==
    [v EXCEPT !.branches[name] = normalized(target)]

view_remove_local_branch(v, name) == [v EXCEPT !.branches[name] = Absent]

view_set_tag(v, name, target) == [v EXCEPT !.tags[name] = normalized(target)]

view_remove_tag(v, name) == [v EXCEPT !.tags[name] = Absent]

view_set_git_ref(v, name, target) == [v EXCEPT !.git_refs[name] = normalized(target)]

view_remove_git_ref(v, name) == [v EXCEPT !.git_refs[name] = Absent]

\* three-way merge of an unkeyed set
merge_sets(base, self, other) ==
    (self \cup other) \ (base \ (self \cap other))

\* three-way merge of the checkout: a commit id cannot hold a conflict, so
\* when both sides moved it the view keeps its own
merge_checkout(base, self, other) ==
    IF self = base THEN other
    ELSE IF other = base THEN self
    ELSE self

\* View::merge(index, base, other)
view_merge(v, base, other) ==
    [head_ids        |-> heads(merge_sets(base.head_ids, v.head_ids, other.head_ids)),
     public_head_ids |-> heads(merge_sets(base.public_head_ids, v.public_head_ids,
                                          other.public_head_ids)),
     checkout        |-> merge_checkout(base.checkout, v.checkout, other.checkout),
     branches        |-> [n \in BranchNames |->
                            merge_ref(base.branches[n], v.branches[n], other.branches[n])],
     tags            |-> [n \in TagNames |->
                            merge_ref(base.tags[n], v.tags[n], other.tags[n])],
     git_refs        |-> [n \in GitRefNames |->
                            merge_ref(base.git_refs[n], v.git_refs[n], other.git_refs[n])]]

\* View::merge_single_ref(index, ref_name, base_target, other_target)
view_merge_single_ref(v, name, base_target, other_target) ==
    [v EXCEPT !.branches[name] = merge_ref(base_target, @, other_target)]

\* the commits a view's refs name
referenced(v) ==
    UNION ({refIds(v.branches[n]) : n \in BranchNames}
           \cup {refIds(v.tags[n]) : n \in TagNames}
           \cup {refIds(v.git_refs[n]) : n \in GitRefNames})

-----------------------------------------------------------------------------
(* MutableRepo *)

\* a MutableRepo that forgets its base and names the first operation
MutableRepo_new_without_base(base_repo, index, view) ==
    [base_repo         |-> 0,
     index             |-> index,
     view              |-> view,
     view_dirty        |-> FALSE,
     rewritten_commits |-> [c \in CommitIds |-> {}],
     abandoned_commits |-> {}]

MutableRepo_new(base_repo, index, view) ==
    [base_repo         |-> base_repo,
     index             |-> index,
     view              |-> view,
     view_dirty        |-> FALSE,
     rewritten_commits |-> [c \in CommitIds |-> {}],
     abandoned_commits |-> {}]

\* ReadonlyRepo::start_transaction on the snapshot at operation o
start_transaction(o) ==
    MutableRepo_new(o, opStore[o].index, opStore[o].view)

enforce_view_invariants(m) ==
    IF ~ m.view_dirty THEN m
    ELSE LET public == heads(m.view.public_head_ids)
         IN  [m EXCEPT !.view.public_head_ids = public,
                       !.view.head_ids = heads(m.view.head_ids \cup public)]

consume(m) ==
    LET e == enforce_view_invariants(m)
    IN  [index |-> e.index, view |-> e.view]

\* topo_order_reverse from head over the parents the index does not hold
RECURSIVE missing_commits(_, _)
missing_commits(index, c) ==
    {c} \cup UNION {missing_commits(index, q) : q \in parent_ids(c) \ index}

add_head(m, head) ==
    IF \A q \in parent_ids(head) : q \in m.view.head_ids
    THEN [m EXCEPT !.index = @ \cup {head},
                   !.view  = [view_add_head(@, head)
                                EXCEPT !.head_ids = @ \ parent_ids(head)]]
    ELSE [m EXCEPT !.index = @ \cup missing_commits(m.index, head),
                   !.view  = view_add_head(@, head),
                   !.view_dirty = TRUE]

remove_head(m, head) ==
    [m EXCEPT !.view = view_remove_head(@, head), !.view_dirty = TRUE]

add_public_head(m, head) ==
    [m EXCEPT !.view = view_add_public_head(@, head), !.view_dirty = TRUE]

remove_public_head(m, head) ==
    [m EXCEPT !.view = view_remove_public_head(@, head), !.view_dirty = TRUE]

\* a store that keeps only the commit written last
store_write_commit_forgetting(s, commit) == {commit}

\* Store::write_commit, as MutableRepo::write_commit calls it
store_write_commit(s, commit) == s \cup {commit}

write_commit(m, commit) == add_head(m, commit)

\* a record that keeps only the last successor
record_rewritten_commit_replacing(m, old_id, new_id) ==
    [m EXCEPT !.rewritten_commits[old_id] = {new_id}]

record_rewritten_commit(m, old_id, new_id) ==
    [m EXCEPT !.rewritten_commits[old_id] = @ \cup {new_id}]

record_abandoned_commit(m, old_id) ==
    [m EXCEPT !.abandoned_commits = @ \cup {old_id}]

clear_rewritten_commits(m) ==
    [m EXCEPT !.rewritten_commits = [c \in DOMAIN @ |-> {}]]

clear_abandoned_commits(m) ==
    [m EXCEPT !.abandoned_commits = {}]

set_checkout(m, id) == [m EXCEPT !.view = view_set_checkout(@, id)]

\* the commit as it is given, open or closed
open_commit_as_given(commit) == commit

\* the commit check_out makes the checkout
open_commit_for(commit) ==
    IF ~ is_open(commit) THEN for_open_commit(commit) ELSE commit

\* a check_out that abandons the checkout it leaves, empty or not
check_out_abandoning_current(m, commit) ==
    LET current_checkout_id == m.view.checkout
        m1 == record_abandoned_commit(m, current_checkout_id)
        m2 == IF ~ is_open(commit)
              THEN write_commit(m1, for_open_commit(commit))
              ELSE m1
    IN  set_checkout(m2, open_commit_for(commit))

check_out(m, commit) ==
    LET current_checkout_id == m.view.checkout
        m1 == IF is_empty(current_checkout_id)
              THEN record_abandoned_commit(m, current_checkout_id)
              ELSE m
        m2 == IF ~ is_open(commit)
              THEN write_commit(m1, for_open_commit(commit))
              ELSE m1
    IN  set_checkout(m2, open_commit_for(commit))

\* the target stored as it is given
set_local_branch_as_given(m, name, target) ==
    [m EXCEPT !.view.branches[name] = target]

\* a set that adds the target to the one the branch has
set_local_branch_keeping_old(m, name, target) ==
    [m EXCEPT !.view.branches[name] =
                 simplify(Plus(@.removes, target.removes), Plus(@.adds, target.adds))]

set_local_branch(m, name, target) ==
    [m EXCEPT !.view = view_set_local_branch(@, name, target)]

remove_local_branch(m, name) ==
    [m EXCEPT !.view = view_remove_local_branch(@, name)]

set_tag(m, name, target) == [m EXCEPT !.view = view_set_tag(@, name, target)]

remove_tag(m, name) == [m EXCEPT !.view = view_remove_tag(@, name)]

set_git_ref(m, name, target) == [m EXCEPT !.view = view_set_git_ref(@, name, target)]

remove_git_ref(m, name) == [m EXCEPT !.view = view_remove_git_ref(@, name)]

\* a merge with the base and the other side exchanged
merge_sides_exchanged(m, base_repo, other_repo) ==
    LET merged == [m EXCEPT !.index = @ \cup opStore[base_repo].index
                                        \cup opStore[other_repo].index]
        e      == enforce_view_invariants(merged)
    IN  [e EXCEPT !.view = view_merge(@, opStore[other_repo].view,
                                      opStore[base_repo].view),
                  !.view_dirty = TRUE]

\* a merge of the indexes alone
merge_of_index_only(m, base_repo, other_repo) ==
    [m EXCEPT !.index = @ \cup opStore[base_repo].index
                          \cup opStore[other_repo].index,
              !.view_dirty = TRUE]

\* a merge that hands the view to View::merge before enforcing its invariants
merge_without_enforcing(m, base_repo, other_repo) ==
    LET merged == [m EXCEPT !.index = @ \cup opStore[base_repo].index
                                        \cup opStore[other_repo].index]
    IN  [merged EXCEPT !.view = view_merge(@, opStore[base_repo].view,
                                           opStore[other_repo].view),
                       !.view_dirty = TRUE]

\* MutableRepo::merge(base_repo, other_repo), the repos given by their operations
merge(m, base_repo, other_repo) ==
    LET merged == [m EXCEPT !.index = @ \cup opStore[base_repo].index
                                        \cup opStore[other_repo].index]
        e      == enforce_view_invariants(merged)
    IN  [e EXCEPT !.view = view_merge(@, opStore[base_repo].view,
                                      opStore[other_repo].view),
                  !.view_dirty = TRUE]

merge_single_ref(m, name, base_target, other_target) ==
    [m EXCEPT !.view = view_merge_single_ref(@, name, base_target, other_target)]

-----------------------------------------------------------------------------
(* Operations and the op-head set *)

Procs == {"p1", "p2"}

OpIds == DOMAIN opStore

\* the operation OpHeadsStore::init writes for ReadonlyRepo::init
root_operation ==
    [parents  |-> {},
     view     |-> root_view,
     index    |-> {root_commit_id, 1},
     metadata |-> [kind |-> "init", by |-> "", at |-> 0]]

\* the operations a process's transactions have written
WrittenBy(p) ==
    {o \in OpIds : opStore[o].metadata.kind = "tx" /\ opStore[o].metadata.by = p}

ProcNo(p) == IF p = "p1" THEN 1 ELSE 2

\* every operation carries who wrote it and when
operation_metadata_of_writer(kind, p) ==
    [kind |-> kind, by |-> p, at |-> Cardinality(WrittenBy(p)) + 1]

\* a transaction's operation carries who wrote it and when (the process's
\* own clock); the operation that merges op heads is the same whoever
\* writes it
operation_metadata(kind, p) ==
    IF kind = "merge"
    THEN [kind |-> "merge", by |-> "", at |-> 0]
    ELSE [kind |-> kind, by |-> p, at |-> Cardinality(WrittenBy(p)) + 1]

\* OpStore::write_operation is content-addressed: the same operation gets the
\* same id.  A transaction's operation is numbered by its writer and the
\* writer's clock, the merges in the order of their first write.
operation_id(op) ==
    IF \E i \in OpIds : opStore[i] = op
    THEN CHOOSE i \in OpIds : opStore[i] = op
    ELSE IF op.metadata.kind = "tx"
         THEN ProcNo(op.metadata.by) + Cardinality(Procs) * (op.metadata.at - 1)
         ELSE Cardinality(Procs) * MaxTx
                + Cardinality({i \in OpIds : opStore[i].metadata.kind = "merge"}) + 1

RECURSIVE op_ancestors(_)
op_ancestors(o) ==
    {o} \cup UNION {op_ancestors(q) : q \in opStore[o].parents}

\* the heads left when every head that is an ancestor of another is dropped
trim_heads(H) ==
    {h \in H : ~ \E g \in H : g # h /\ h \in op_ancestors(g)}

Max(S) == CHOOSE x \in S : \A y \in S : y <= x

MinOf(S) == CHOOSE x \in S : \A y \in S : x <= y

\* the closest common ancestor of the operations in A and operation b
closest_common_node(A, b) ==
    LET common  == (UNION {op_ancestors(a) : a \in A}) \cap op_ancestors(b)
        closest == {c \in common :
                      ~ \E d \in common : d # c /\ c \in op_ancestors(d)}
    IN  Max(closest)

\* the left fold of MutableRepo::merge over the heads, in id order
RECURSIVE merge_fold(_, _, _)
merge_fold(m, done, todo) ==
    IF todo = {} THEN m
    ELSE LET h == MinOf(todo)
         IN  merge_fold(merge(m, closest_common_node(done, h), h),
                        done \cup {h}, todo \ {h})

merge_op_heads(H) ==
    LET first == MinOf(H)
    IN  merge_fold(start_transaction(first), {first}, H \ {first})

-----------------------------------------------------------------------------
(* Rewriting: DescendantRebaser and parallelize.  They work on a backend   *)
(* that grows: commits maps the ids written so far to the commit data, and  *)
(* a commit's parents are written before it, so that the order of the ids   *)
(* is a topological order of the commits.                                   *)

\* the commit ids the rewrite records are kept for
RbIds == 0..31

\* Index: the ancestors of a commit, itself included
RECURSIVE index_ancestors(_, _)
index_ancestors(commits, c) ==
    {c} \cup UNION {index_ancestors(commits, p) : p \in commits[c].parent_ids}

index_descendants(commits, S) ==
    {c \in DOMAIN commits : index_ancestors(commits, c) \cap S # {}}

\* DAG-heads: the members of S that are no proper ancestor of another
index_heads(commits, S) ==
    {c \in S : ~ \E d \in S \ {c} : c \in index_ancestors(commits, d)}

\* the backend is content-addressed: the same commit data has the same id
backend_commit_id(commits, commit) ==
    IF \E i \in DOMAIN commits : commits[i] = commit
    THEN CHOOSE i \in DOMAIN commits : commits[i] = commit
    ELSE Cardinality(DOMAIN commits)

\* MutableRepo::write_commit on this backend: the commit is written and
\* becomes a head
rb_write_commit(m, commit) ==
    LET id      == backend_commit_id(m.commits, commit)
        commits == m.commits @@ (id :> commit)
    IN  [m EXCEPT !.commits = commits,
                  !.view.head_ids = index_heads(commits, @ \cup {id})]

\* the substitution sigma, defaulting to the commit itself
image(sigma, p) == IF p \in DOMAIN sigma THEN sigma[p] ELSE {p}

\* step 3: sigma flat-mapped over the parents, de-duplicated, and without
\* the parents that are proper ancestors of another
new_parents(commits, sigma, old_parent_ids) ==
    index_heads(commits, UNION {image(sigma, p) : p \in old_parent_ids})

\* a replacement written as a commit of its own
rewritten_commit_as_new_change(commits, c, parents) ==
    [parent_ids   |-> parents,
     change_id    |-> Cardinality(DOMAIN commits),
     predecessors |-> {}]

\* the commit c' that replaces c on new parents
rewritten_commit(commits, c, parents) ==
    [parent_ids   |-> parents,
     change_id    |-> commits[c].change_id,
     predecessors |-> {c}]

\* the visit with children before their parents
RECURSIVE rebase_all_children_first(_, _, _, _, _)
rebase_all_children_first(commits, sigma, to_visit, parents_of, abandoned) ==
    IF to_visit = {} THEN [commits |-> commits, sigma |-> sigma]
    ELSE LET c    == CHOOSE x \in to_visit : \A y \in to_visit : y <= x
             rest == to_visit \ {c}
             np   == new_parents(commits, sigma, parents_of[c])
             new  == rewritten_commit(commits, c, np)
         IN  IF c \in abandoned
             THEN rebase_all_children_first(commits, sigma @@ (c :> np), rest,
                                            parents_of, abandoned)
             ELSE IF np = commits[c].parent_ids
                  THEN rebase_all_children_first(commits, sigma, rest, parents_of,
                                                 abandoned)
                  ELSE rebase_all_children_first(
                          commits @@ (backend_commit_id(commits, new) :> new),
                          sigma @@ (c :> {backend_commit_id(commits, new)}),
                          rest, parents_of, abandoned)

\* steps 2 and 3 over to_visit, parents before children: an abandoned commit
\* maps to its parents' images, any other commit whose parents change is
\* written anew.  parents_of gives the parents each commit is to have.
RECURSIVE rebase_all(_, _, _, _, _)
rebase_all(commits, sigma, to_visit, parents_of, abandoned) ==
    IF to_visit = {} THEN [commits |-> commits, sigma |-> sigma]
    ELSE LET c    == MinOf(to_visit)
             rest == to_visit \ {c}
             np   == new_parents(commits, sigma, parents_of[c])
             new  == rewritten_commit(commits, c, np)
         IN  IF c \in abandoned
             THEN rebase_all(commits, sigma @@ (c :> np), rest, parents_of, abandoned)
             ELSE IF np = commits[c].parent_ids
                  THEN rebase_all(commits, sigma, rest, parents_of, abandoned)
                  ELSE rebase_all(commits @@ (backend_commit_id(commits, new) :> new),
                                  sigma @@ (c :> {backend_commit_id(commits, new)}),
                                  rest, parents_of, abandoned)

\* refs rewritten with a substitution that maps the commits it does not know
\* to nothing
update_references_of_known(m, sigma, abandoned) ==
    LET ref_image(c) == IF c \in DOMAIN sigma THEN image(sigma, c) \ abandoned ELSE {}
        target(t)    == [removes |-> UNION {ref_image(c) : c \in t.removes},
                         adds    |-> UNION {ref_image(c) : c \in t.adds}]
        moved        == MinOf(image(sigma, m.view.checkout))
        on_root      == m.view.checkout \in abandoned /\ moved = root_commit_id
        open         == [parent_ids   |-> {root_commit_id},
                         change_id    |-> Cardinality(DOMAIN m.commits),
                         predecessors |-> {}]
        m1           == IF on_root THEN rb_write_commit(m, open) ELSE m
        checkout     == IF on_root THEN backend_commit_id(m.commits, open) ELSE moved
    IN  [m1 EXCEPT !.view.branches = [n \in BranchNames |-> target(@[n])],
                   !.view.checkout = checkout,
                   !.view.head_ids =
                       index_heads(m1.commits,
                                   UNION {image(sigma, h) : h \in m.view.head_ids}
                                   \cup (IF on_root THEN {checkout} ELSE {}))]

\* steps 4 and 5: refs, heads and the checkout follow sigma.  A ref loses the
\* abandoned commits; the checkout of an abandoned commit moves to the
\* rebased parent, and to a new open commit on the root when that is the root
update_references(m, sigma, abandoned) ==
    LET ref_image(c) == IF c \in abandoned THEN {} ELSE image(sigma, c)
        target(t)    == [removes |-> UNION {ref_image(c) : c \in t.removes},
                         adds    |-> UNION {ref_image(c) : c \in t.adds}]
        moved        == MinOf(image(sigma, m.view.checkout))
        on_root      == m.view.checkout \in abandoned /\ moved = root_commit_id
        open         == [parent_ids   |-> {root_commit_id},
                         change_id    |-> Cardinality(DOMAIN m.commits),
                         predecessors |-> {}]
        m1           == IF on_root THEN rb_write_commit(m, open) ELSE m
        checkout     == IF on_root THEN backend_commit_id(m.commits, open) ELSE moved
    IN  [m1 EXCEPT !.view.branches = [n \in BranchNames |-> target(@[n])],
                   !.view.checkout = checkout,
                   !.view.head_ids =
                       index_heads(m1.commits,
                                   UNION {image(sigma, h) : h \in m.view.head_ids}
                                   \cup (IF on_root THEN {checkout} ELSE {}))]

\* a rewrite that leaves the records of the transaction in place
Rewritten_keeping_records(m, did, T, r, abandoned) ==
    LET records == {c \in DOMAIN m.commits : m.rewritten_commits[c] # {}} \cup abandoned
        rebased == DOMAIN r.sigma \ records
    IN  [update_references([m EXCEPT !.commits = r.commits], r.sigma, abandoned)
           EXCEPT !.did     = did,
                  !.targets = T,
                  !.before  = [commits |-> m.commits, view |-> m.view,
                               rewritten_commits |-> m.rewritten_commits,
                               abandoned_commits |-> m.abandoned_commits],
                  !.rebased = [c \in rebased |-> MinOf(r.sigma[c])],
                  !.message = IF rebased = {} THEN "Nothing changed." ELSE ""]

\* what a rewrite leaves behind: the repository before it, with the records
\* the rebaser consumed, and what it did.  The rebaser ends with
\* clear_rewritten_commits and clear_abandoned_commits
Rewritten(m, did, T, r, abandoned) ==
    LET records == {c \in DOMAIN m.commits : m.rewritten_commits[c] # {}} \cup abandoned
        rebased == DOMAIN r.sigma \ records
    IN  [clear_abandoned_commits(clear_rewritten_commits(
            update_references([m EXCEPT !.commits = r.commits], r.sigma, abandoned)))
           EXCEPT !.did     = did,
                  !.targets = T,
                  !.before  = [commits |-> m.commits, view |-> m.view,
                               rewritten_commits |-> m.rewritten_commits,
                               abandoned_commits |-> m.abandoned_commits],
                  !.rebased = [c \in rebased |-> MinOf(r.sigma[c])],
                  !.message = IF rebased = {} THEN "Nothing changed." ELSE ""]

\* DescendantRebaser::new(mut_repo, rewritten, abandoned), then rebase_all
DescendantRebaser(m, rewritten, abandoned) ==
    LET keys     == {c \in DOMAIN m.commits : rewritten[c] # {}}
        to_visit == index_descendants(m.commits, keys \cup abandoned) \ keys
    IN  Rewritten(m, "rebase_descendants", {},
                  rebase_all(m.commits, [c \in keys |-> rewritten[c]], to_visit,
                             [c \in DOMAIN m.commits |-> m.commits[c].parent_ids],
                             abandoned),
                  abandoned)

rebase_descendants_of_rewritten(m) ==
    DescendantRebaser(m, m.rewritten_commits, {})

\* MutableRepo::rebase_descendants; rebased().len() is the size of .rebased
rebase_descendants(m) ==
    DescendantRebaser(m, m.rewritten_commits, m.abandoned_commits)

target_parents_of_roots(commits, T, t) ==
    UNION {commits[r].parent_ids : r \in {x \in T : commits[x].parent_ids \cap T = {}}} \ T

\* rule 2 as the tests have it: a target keeps its parents outside T, and a
\* parent in T gives way to the parents that parent gets
RECURSIVE target_parents(_, _, _)
target_parents(commits, T, t) ==
    (commits[t].parent_ids \ T)
    \cup UNION {target_parents(commits, T, p) : p \in commits[t].parent_ids \cap T}

child_parents_kept(commits, T, c) == commits[c].parent_ids

\* rule 3: a child of a target keeps its parents outside T and gets the
\* targets among its ancestors
child_parents(commits, T, c) ==
    (commits[c].parent_ids \ T) \cup (index_ancestors(commits, c) \cap T)

\* parallelize: the targets and their children get their new parents in the
\* pass that rebases the descendants
parallelize(m, T) ==
    LET children   == {c \in DOMAIN m.commits \ T : m.commits[c].parent_ids \cap T # {}}
        parents_of == [c \in DOMAIN m.commits |->
                         IF c \in T THEN target_parents(m.commits, T, c)
                         ELSE IF c \in children THEN child_parents(m.commits, T, c)
                         ELSE m.commits[c].parent_ids]
    IN  Rewritten(m, "parallelize", T,
                  rebase_all(m.commits, <<>>, index_descendants(m.commits, T),
                             parents_of, {}),
                  {})

\* a repository whose commits have the given parents, commit i those of
\* parents[i]; the checkout and branch main are at x, branch dev is at y
Repository(parents, x, y) ==
    LET commits == [c \in 0..Len(parents) |->
                      [parent_ids   |-> IF c = root_commit_id THEN {} ELSE parents[c],
                       change_id    |-> c,
                       predecessors |-> {}]]
    IN  [commits           |-> commits,
         view              |-> [head_ids |-> index_heads(commits, DOMAIN commits),
                                branches |-> [n \in BranchNames |->
                                                [removes |-> {},
                                                 adds |-> {IF n = "main" THEN x ELSE y}]],
                                checkout |-> x],
         rewritten_commits |-> [c \in RbIds |-> {}],
         abandoned_commits |-> {},
         did               |-> "",
         targets           |-> {},
         before            |-> [commits |-> commits, view |-> {},
                               rewritten_commits |-> [c \in RbIds |-> {}],
                               abandoned_commits |-> {}],
         rebased           |-> <<>>,
         message           |-> ""]

NoRb == Repository(<<>>, root_commit_id, root_commit_id)

-----------------------------------------------------------------------------
(* ReadonlyRepo: the index cache, index() and reindex() *)

Threads == {"t1", "t2"}

\* Option::None in the Mutex
None == 0

\* a ReadonlyRepo as create_from (index given) and _finish_load (None) make
\* it; index objects are numbered, the given one is 1
ReadonlyRepo_new(index) ==
    [index  |-> index,
     given  |-> index # None,
     loads  |-> 0,
     reinit |-> 0,
     lock   |-> "",
     at     |-> [t \in Threads |-> "idle"],
     ref    |-> [t \in Threads |-> None],
     calls  |-> [t \in Threads |-> 0]]

NoRo == ReadonlyRepo_new(None)

\* IndexStore::get_index_at_op: every call makes a new index object
get_index_at_op(r) == [r EXCEPT !.loads = @ + 1, !.index = 2 + r.loads]

\* an index() that loads whatever the cache holds
index_always_loading(r) == get_index_at_op(r)

\* index(), under the lock: the cache is filled when it is empty
index(r) == IF r.index = None THEN get_index_at_op(r) ELSE r

\* reindex(), with exclusive access: the cache is emptied and filled again
reindex(r) == index([r EXCEPT !.reinit = @ + 1, !.index = None])

-----------------------------------------------------------------------------
(* Conflicted files: materialization, parsing and the merge tool of
   `jj resolve`.  A file is a sequence of lines and a line a sequence of
   characters; a word without marker characters is one element *)

MarkerChars == {"<", "=", "|", ">", "%", "+", "-"}

Styles == {"diff", "snapshot", "git"}

\* the shortest marker
MinMarkerLen == 7
\* what a marker is longer by than the longest run in the contents
MarkerLenIncrement == 4

Sp == " "

Rep(c, n) == [i \in 1..n |-> c]

Word(w) == <<w>>

\* a line that starts with n characters c, as "<<<<<<< a"
RunLine(c, n, w) == Rep(c, n) \o <<Sp, w>>

\* a file value: the sides (adds) and the bases (removes) between them
FileMerge(adds, removes) == [adds |-> adds, removes |-> removes]

Resolved(content) == FileMerge(<<content>>, <<>>)

Conflict2(side1, base, side2) == FileMerge(<<side1, side2>>, <<base>>)

is_resolved(v) == Len(v.adds) = 1

\* the run of one marker character that a line starts with
leading_run(line) ==
    IF line = <<>> THEN 0
    ELSE IF line[1] \notin MarkerChars THEN 0
    ELSE CHOOSE n \in 1..Len(line) :
            /\ \A i \in 1..n : line[i] = line[1]
            /\ n < Len(line) => line[n + 1] # line[1]

\* the longest run of one marker character anywhere in a line
longest_run(line) ==
    Max({0} \cup {leading_run(SubSeq(line, i, Len(line))) : i \in 1..Len(line)})

contents_of(v) == Range(v.adds) \cup Range(v.removes)

max_existing_run(v) ==
    Max({0} \cup UNION {{longest_run(c[i]) : i \in DOMAIN c} : c \in contents_of(v)})

\* a marker length that ignores the contents
marker_len_fixed(v) == MinMarkerLen

\* the length of the markers a conflict is materialized with
choose_marker_len(v) ==
    Max({MinMarkerLen, max_existing_run(v) + MarkerLenIncrement})

marker(c, L, label) == Rep(c, L) \o <<Sp, label>>

\* the lines of a diff: every line of the content after the character p
prefixed(p, content) == [i \in DOMAIN content |-> <<p>> \o content[i]]

\* a materialization that leaves the sides out of order
materialize_swapped(v, style, L) ==
    IF is_resolved(v) THEN v.adds[1]
    ELSE <<marker("<", L, "Conflict 1 of 1"), marker("+", L, "Contents of side #1")>>
         \o v.adds[2]
         \o <<marker("-", L, "Contents of base")>> \o v.removes[1]
         \o <<marker("+", L, "Contents of side #2")>> \o v.adds[1]
         \o <<marker(">", L, "Conflict 1 of 1 ends")>>

\* the text of a two-sided conflict, one hunk, in the three styles
materialize(v, style, L) ==
    IF is_resolved(v) THEN v.adds[1]
    ELSE IF style = "diff" THEN
         <<marker("<", L, "Conflict 1 of 1"),
           marker("%", L, "Changes from base to side #1")>>
         \o prefixed("-", v.removes[1]) \o prefixed("+", v.adds[1])
         \o <<marker("+", L, "Contents of side #2")>> \o v.adds[2]
         \o <<marker(">", L, "Conflict 1 of 1 ends")>>
    ELSE IF style = "snapshot" THEN
         <<marker("<", L, "Conflict 1 of 1"), marker("+", L, "Contents of side #1")>>
         \o v.adds[1]
         \o <<marker("-", L, "Contents of base")>> \o v.removes[1]
         \o <<marker("+", L, "Contents of side #2")>> \o v.adds[2]
         \o <<marker(">", L, "Conflict 1 of 1 ends")>>
    ELSE <<marker("<", L, "Side #1 (Conflict 1 of 1)")>> \o v.adds[1]
         \o <<marker("|", L, "Base")>> \o v.removes[1]
         \o <<Rep("=", L)>> \o v.adds[2]
         \o <<marker(">", L, "Side #2 (Conflict 1 of 1 ends)")>>

\* a line is a marker when it starts with at least L characters c and the
\* run ends the line or is followed by a space
is_marker(line, c, L) ==
    /\ line # <<>>
    /\ line[1] = c
    /\ leading_run(line) >= L
    /\ leading_run(line) < Len(line) => line[leading_run(line) + 1] = Sp

marker_kind(line, L) ==
    IF \E c \in MarkerChars : is_marker(line, c, L) THEN line[1] ELSE ""

\* the first marker line of kind c at or after line from; 0 when there is none
first_marker(lines, c, L, from) ==
    LET found == {i \in from..Len(lines) : is_marker(lines[i], c, L)}
    IN  IF found = {} THEN 0 ELSE MinOf(found)

NoHunk == [ok |-> TRUE, adds |-> <<>>, removes |-> <<>>]

BadHunk == [ok |-> FALSE, adds |-> <<>>, removes |-> <<>>]

\* a line is added to the side or the base that was started last
onto_last(contents, line) ==
    [contents EXCEPT ![Len(contents)] = Append(@, line)]

\* the body of a hunk in the diff and snapshot styles: sections of a diff
\* (%), of a side (+) and of a base (-)
RECURSIVE parse_jj_hunk(_, _, _, _)
parse_jj_hunk(body, L, h, mode) ==
    IF body = <<>> \/ ~ h.ok THEN h
    ELSE LET line == Head(body)
             k == marker_kind(line, L)
         IN  IF k \in {"%", "+", "-"} THEN
                 parse_jj_hunk(Tail(body), L,
                     [h EXCEPT !.adds = IF k = "-" THEN @ ELSE Append(@, <<>>),
                               !.removes = IF k = "+" THEN @ ELSE Append(@, <<>>)],
                     k)
             ELSE IF mode = "+" THEN
                 parse_jj_hunk(Tail(body), L,
                     [h EXCEPT !.adds = onto_last(@, line)], mode)
             ELSE IF mode = "-" THEN
                 parse_jj_hunk(Tail(body), L,
                     [h EXCEPT !.removes = onto_last(@, line)], mode)
             ELSE IF mode = "%" /\ line # <<>> /\ line[1] \in {"-", "+", Sp} THEN
                 parse_jj_hunk(Tail(body), L,
                     [h EXCEPT
                        !.adds = IF line[1] = "-" THEN @ ELSE onto_last(@, Tail(line)),
                        !.removes = IF line[1] = "+" THEN @ ELSE onto_last(@, Tail(line))],
                     mode)
             ELSE BadHunk

\* the body of a hunk in the git style: side 1, |||||||, base, =======, side 2
parse_git_hunk(body, L) ==
    LET b == first_marker(body, "|", L, 1)
        e == IF b = 0 THEN 0 ELSE first_marker(body, "=", L, b + 1)
    IN  IF b = 0 \/ e = 0 THEN BadHunk
        ELSE [ok |-> TRUE,
              adds |-> <<SubSeq(body, 1, b - 1), SubSeq(body, e + 1, Len(body))>>,
              removes |-> <<SubSeq(body, b + 1, e - 1)>>]

parse_hunk(body, L) ==
    IF body # <<>> /\ marker_kind(body[1], L) \in {"%", "+", "-"}
    THEN parse_jj_hunk(body, L, NoHunk, "")
    ELSE parse_git_hunk(body, L)

\* the file value a text stands for, with markers of length L or more: the
\* text around the hunk belongs to every side and base; a text without a
\* well-formed two-sided hunk is resolved content
parse_conflict(lines, L) ==
    LET b == first_marker(lines, "<", L, 1)
        e == IF b = 0 THEN 0 ELSE first_marker(lines, ">", L, b + 1)
        hunk == parse_hunk(SubSeq(lines, b + 1, e - 1), L)
        around(c) == SubSeq(lines, 1, b - 1) \o c \o SubSeq(lines, e + 1, Len(lines))
    IN  IF b = 0 \/ e = 0 THEN Resolved(lines)
        ELSE IF ~ hunk.ok \/ Len(hunk.adds) # 2 \/ Len(hunk.removes) # 1
        THEN Resolved(lines)
        ELSE Conflict2(around(hunk.adds[1]), around(hunk.removes[1]),
                       around(hunk.adds[2]))

\* `jj resolve` on one conflicted file with an external merge tool
NoRes ==
    [pc |-> "none", file |-> Resolved(<<>>), before |-> Resolved(<<>>),
     conflict |-> Resolved(<<>>),
     style |-> "diff", edits |-> FALSE, marker_arg |-> FALSE, codes |-> {},
     len |-> 0,
     initial |-> <<>>, output |-> <<>>, wrote |-> 0, exit |-> 0,
     error |-> "", committed |-> FALSE,
     paths |-> <<>>, orig |-> <<>>, tree |-> <<>>, final |-> <<>>,
     message |-> "", count |-> 0, new_commit |-> FALSE]

\* the command at its start: the file value, the tool's
\* conflict-marker-style, merge-tool-edits-conflict-markers, whether its
\* merge-args have $marker_length, and merge-conflict-exit-codes
resolve_new(v, style, edits, marker_arg, codes) ==
    [NoRes EXCEPT !.pc = "start", !.file = v, !.before = v, !.style = style,
                  !.edits = edits, !.marker_arg = marker_arg, !.codes = codes]

\* the command at its start on the conflicted files of a commit, in path
\* order: the first file is at hand, the others wait
resolve_all_new(files, style, edits, marker_arg, codes) ==
    [resolve_new(Head(files), style, edits, marker_arg, codes)
        EXCEPT !.paths = Tail(files), !.orig = files]

\* the output file as the tool finds it
write_output_file(r) ==
    LET L == choose_marker_len(r.conflict)
        text == IF r.edits THEN materialize(r.conflict, r.style, L) ELSE <<>>
    IN  [r EXCEPT !.pc = "tool", !.len = L, !.initial = text, !.output = text]

\* a parsing that takes markers of the shortest length whatever the tool got
conflict_marker_len_min(r) == MinMarkerLen

\* the marker length the output is parsed with: that of the materialized
\* markers when the tool saw them or was told their length
conflict_marker_len(r) == IF r.edits \/ r.marker_arg THEN r.len ELSE MinMarkerLen

failed(r, error) == [r EXCEPT !.pc = "done", !.error = error]

resolved_to(r, v) == [r EXCEPT !.pc = "done", !.file = v, !.committed = TRUE]

RemoveAt(s, i) == SubSeq(s, 1, i - 1) \o SubSeq(s, i + 1, Len(s))

\* a file value without the terms that are both a side and a base
RECURSIVE simplify_sides(_)
simplify_sides(v) ==
    LET pairs == {p \in (DOMAIN v.adds) \X (DOMAIN v.removes) :
                     v.adds[p[1]] = v.removes[p[2]]}
        first == CHOOSE p \in pairs :
                    \A q \in pairs : p[1] < q[1] \/ (p[1] = q[1] /\ p[2] <= q[2])
    IN  IF pairs = {} THEN v
        ELSE simplify_sides(FileMerge(RemoveAt(v.adds, first[1]),
                                      RemoveAt(v.removes, first[2])))

\* the tool has done with a file: its value is kept and the next file is at
\* hand, for a new run of the tool
next_file(r) ==
    [r EXCEPT !.pc = "start", !.tree = Append(@, r.file),
              !.file = Head(r.paths), !.before = Head(r.paths),
              !.paths = Tail(@), !.conflict = NoRes.conflict, !.len = 0,
              !.initial = <<>>, !.output = <<>>, !.wrote = 0, !.exit = 0,
              !.committed = FALSE]

\* an end that discards what the runs before the error have done
resolve_end_discarding(r) ==
    IF r.error # ""
    THEN [r EXCEPT !.pc = "ended", !.final = r.orig,
                   !.message = "Failed to resolve conflicts"]
    ELSE [r EXCEPT !.pc = "ended", !.final = Append(r.tree, r.file),
                   !.count = Len(r.tree) + 1, !.new_commit = TRUE]

\* the command ends after the last file or at the first error: the files
\* the tool has done with are committed, the others stay as they were
resolve_end(r) ==
    IF r.error = ""
    THEN [r EXCEPT !.pc = "ended", !.final = Append(r.tree, r.file),
                   !.count = Len(r.tree) + 1, !.new_commit = TRUE]
    ELSE IF r.tree = <<>>
    THEN [r EXCEPT !.pc = "ended", !.final = r.orig,
                   !.message = "Failed to resolve conflicts"]
    ELSE [r EXCEPT !.pc = "ended", !.final = r.tree \o <<r.before>> \o r.paths,
                   !.count = Len(r.tree), !.new_commit = TRUE,
                   !.message = "Stopped due to error after resolving conflicts"]

\* a start that counts the sides of the file value as it is in the tree
resolve_start_unsimplified(r) ==
    IF Len(r.file.adds) > 2
    THEN failed(r, "at most 2 sides are supported")
    ELSE write_output_file([r EXCEPT !.conflict = simplify_sides(r.file)])

\* the command takes the simplified conflict, refuses more than 2 sides and
\* hands base, left and right to the tool
resolve_start(r) ==
    LET conflict == simplify_sides(r.file)
    IN  IF Len(conflict.adds) > 2
        THEN failed(r, "at most 2 sides are supported")
        ELSE write_output_file([r EXCEPT !.conflict = conflict])

\* a reading of the output that takes the exit status for everything
read_output_by_exit_status(r) ==
    IF r.exit = 0 THEN resolved_to(r, Resolved(r.output))
    ELSE IF r.exit \in r.codes
    THEN resolved_to(r, parse_conflict(r.output, conflict_marker_len(r)))
    ELSE failed(r, "tool exited with exit status")

\* a reading of the output that parses it whatever the tool is set to
read_output_parsing(r) ==
    IF r.exit # 0 /\ r.exit \notin r.codes THEN failed(r, "tool exited with exit status")
    ELSE IF r.output = <<>> \/ r.output = r.initial
    THEN failed(r, "output unchanged or empty")
    ELSE resolved_to(r, parse_conflict(r.output, conflict_marker_len(r)))

\* a reading of the output that takes an unchanged output as the result
read_output_unchanged(r) ==
    IF r.exit # 0 /\ r.exit \notin r.codes THEN failed(r, "tool exited with exit status")
    ELSE IF r.edits \/ r.exit \in r.codes
    THEN resolved_to(r, parse_conflict(r.output, conflict_marker_len(r)))
    ELSE resolved_to(r, Resolved(r.output))

\* what the command makes of the tool's exit status and output
read_output(r) ==
    LET exit_status_implies_conflict == r.exit \in r.codes
        parsed == parse_conflict(r.output, conflict_marker_len(r))
    IN  IF r.exit # 0 /\ ~ exit_status_implies_conflict
        THEN failed(r, "tool exited with exit status")
        ELSE IF r.output = <<>> \/ r.output = r.initial
        THEN failed(r, "output unchanged or empty")
        ELSE IF r.edits \/ exit_status_implies_conflict
        THEN IF exit_status_implies_conflict /\ is_resolved(parsed)
             THEN failed(r, "did not produce valid conflict markers")
             ELSE resolved_to(r, parsed)
        ELSE resolved_to(r, Resolved(r.output))

-----------------------------------------------------------------------------
(* The repository directory: RepoLoader::init and the store of the old
   format.  A file's contents are a sequence of characters *)

NoNode == [kind |-> "none"]

File(contents) == [kind |-> "file", contents |-> contents]

\* a directory; what is in it is known by its name
Dir(name) == [kind |-> "dir", name |-> name]

is_file(node) == node.kind = "file"

is_dir(node) == node.kind = "dir"

GitPrefix == <<"g", "i", "t", ":", " ">>

\* contents.starts_with("git: ")
starts_with(contents, prefix) ==
    /\ Len(contents) >= Len(prefix)
    /\ SubSeq(contents, 1, Len(prefix)) = prefix

\* a path that keeps the space of the prefix
git_backend_path_from_colon(contents) == SubSeq(contents, 5, Len(contents))

\* contents[5..]
git_backend_path_str(contents) == SubSeq(contents, 6, Len(contents))

\* the directory of a repository: store, git, store/git, store/git_target;
\* and the RepoLoader that opens it: where it stands, what it has read, what
\* Store::load_store found
RepoDir(store_node, git, store_git, git_target) ==
    [store |-> store_node, git |-> git, store_git |-> store_git,
     git_target |-> git_target,
     at |-> "closed", buf |-> <<>>, was |-> [store |-> store_node, git |-> git],
     opens |-> 0, upgrades |-> 0, loaded |-> NoNode, loaded_git |-> NoNode]

NoFs == RepoDir(NoNode, NoNode, NoNode, NoNode)

-----------------------------------------------------------------------------
(* State *)

NoMut == MutableRepo_new(0, {}, root_view)

NoFin ==
    [kind |-> "", parents |-> {}, view |-> root_view, index |-> {},
     id |-> -1, heads |-> {}, remove |-> {}]

NoLast == [op |-> "", n |-> "", x |-> -1, y |-> -1, names |-> <<>>]

Did(op, n, x, y) == [op |-> op, n |-> n, x |-> x, y |-> y, names |-> <<>>]

Init ==
    /\ store = {root_commit_id, 1}
    /\ viewStore = {root_view}
    /\ opStore = (0 :> root_operation)
    /\ opHeads = {0}
    /\ pc = [p \in Procs |-> "idle"]
    /\ repo = [p \in Procs |-> 0]
    /\ mr = [p \in Procs |-> NoMut]
    /\ fin = [p \in Procs |-> NoFin]
    /\ last = [p \in Procs |-> NoLast]
    /\ steps = 0
    /\ started = 0
    /\ everHead = {0}
    /\ rb = NoRb
    /\ fs = NoFs
    /\ ro = NoRo
    /\ res = NoRes

persisted == <<store, viewStore, opStore, opHeads, everHead>>

\* the operations written by transactions
TxOps == {o \in OpIds : opStore[o].metadata.kind = "tx"}

-----------------------------------------------------------------------------
(* Transactions *)

StartTransaction(p) ==
    /\ pc[p] = "idle"
    /\ started < MaxTx
    /\ started' = started + 1
    /\ pc' = [pc EXCEPT ![p] = "tx"]
    /\ mr' = [mr EXCEPT ![p] = start_transaction(repo[p])]
    /\ last' = [last EXCEPT ![p] = NoLast]
    /\ UNCHANGED <<fs, res, ro, rb, persisted, repo, fin, steps>>

\* the caller drops the MutableRepo
Drop(p) ==
    /\ pc[p] = "tx"
    /\ pc' = [pc EXCEPT ![p] = "idle"]
    /\ mr' = [mr EXCEPT ![p] = NoMut]
    /\ last' = [last EXCEPT ![p] = NoLast]
    /\ UNCHANGED <<fs, res, ro, rb, persisted, repo, fin, steps, started>>

\* ReadonlyRepo::reload_at(operation), then start_transaction on that snapshot
StartTransactionAt(p, o) ==
    /\ pc[p] = "idle"
    /\ o \in OpIds
    /\ o # repo[p]
    /\ started < MaxTx
    /\ started' = started + 1
    /\ repo' = [repo EXCEPT ![p] = o]
    /\ pc' = [pc EXCEPT ![p] = "tx"]
    /\ mr' = [mr EXCEPT ![p] = start_transaction(o)]
    /\ last' = [last EXCEPT ![p] = NoLast]
    /\ UNCHANGED <<fs, res, ro, rb, persisted, fin, steps>>

\* a staged mutation: the MutableRepo becomes m, the backend store s
Staged(p, m, s, did) ==
    /\ pc[p] = "tx"
    /\ steps < MaxSteps
    /\ mr' = [mr EXCEPT ![p] = m]
    /\ store' = s
    /\ last' = [last EXCEPT ![p] = did]
    /\ steps' = steps + 1
    /\ UNCHANGED <<fs, res, ro, rb, viewStore, opStore, opHeads, everHead, pc, repo, fin, started>>

WriteCommit(p, c) ==
    /\ c \in UserCommits \ store
    /\ parent_ids(c) \subseteq store
    /\ Staged(p, write_commit(mr[p], c), store_write_commit(store, c),
              Did("write_commit", "", c, -1))

AddHead(p, c) ==
    /\ c \in store
    /\ Staged(p, add_head(mr[p], c), store, Did("add_head", "", c, -1))

RemoveHead(p, c) ==
    /\ c \in store
    /\ Staged(p, remove_head(mr[p], c), store, Did("remove_head", "", c, -1))

AddPublicHead(p, c) ==
    /\ c \in mr[p].index
    /\ Staged(p, add_public_head(mr[p], c), store, Did("add_public_head", "", c, -1))

RemovePublicHead(p, c) ==
    /\ c \in store
    /\ Staged(p, remove_public_head(mr[p], c), store,
              Did("remove_public_head", "", c, -1))

SetCheckout(p, c) ==
    /\ c \in store
    /\ Staged(p, set_checkout(mr[p], c), store, Did("set_checkout", "", c, -1))

\* check_out asserts that the current checkout is open
CheckOut(p, c) ==
    /\ c \in store
    /\ is_open(mr[p].view.checkout)
    /\ ~ is_open(c) => for_open_commit(c) \notin store
    /\ Staged(p, check_out(mr[p], c),
              IF ~ is_open(c) THEN store_write_commit(store, for_open_commit(c))
              ELSE store,
              Did("check_out", "", c, mr[p].view.checkout))

\* the assertion fails: the call panics and the transaction is lost
CheckOutPanic(p, c) ==
    /\ pc[p] = "tx"
    /\ c \in store
    /\ ~ is_open(mr[p].view.checkout)
    /\ pc' = [pc EXCEPT ![p] = "idle"]
    /\ mr' = [mr EXCEPT ![p] = NoMut]
    /\ last' = [last EXCEPT ![p] = Did("check_out_panic", "", c, -1)]
    /\ UNCHANGED <<fs, res, ro, rb, persisted, repo, fin, steps, started>>

\* the targets a client sets a ref to: unambiguous ones, a conflict, and a
\* conflict written with an id that is both added and removed
TargetInputs ==
    {Normal(0), Normal(1), Normal(2),
     Conflict(Only(0), Plus(Only(1), Only(2))),
     Conflict(Only(0), Plus(Only(0), Only(1)))}

\* the targets a client hands to merge_single_ref
SingleRefInputs == {Absent, Normal(0), Normal(1)}

SetLocalBranch(p, n, t) ==
    /\ refIds(t) \subseteq store
    /\ Staged(p, set_local_branch(mr[p], n, t), store,
              Did("set_local_branch", n, IF normalized(t) = t THEN 0 ELSE 1, -1))

RemoveLocalBranch(p, n) ==
    /\ mr[p].view.branches[n] # Absent
    /\ Staged(p, remove_local_branch(mr[p], n), store,
              Did("remove_local_branch", n, -1, -1))

SetTag(p, n, t) ==
    /\ refIds(t) \subseteq store
    /\ Staged(p, set_tag(mr[p], n, t), store, Did("set_tag", n, -1, -1))

RemoveTag(p, n) ==
    /\ mr[p].view.tags[n] # Absent
    /\ Staged(p, remove_tag(mr[p], n), store, Did("remove_tag", n, -1, -1))

SetGitRef(p, n, t) ==
    /\ refIds(t) \subseteq store
    /\ Staged(p, set_git_ref(mr[p], n, t), store, Did("set_git_ref", n, -1, -1))

RemoveGitRef(p, n) ==
    /\ mr[p].view.git_refs[n] # Absent
    /\ Staged(p, remove_git_ref(mr[p], n), store, Did("remove_git_ref", n, -1, -1))

Merge(p, b, o) ==
    /\ b \in OpIds
    /\ o \in OpIds
    /\ Staged(p, merge(mr[p], b, o), store, Did("merge", "", b, o))

MergeSingleRef(p, n, bt, ot) ==
    /\ Staged(p, merge_single_ref(mr[p], n, bt, ot), store,
              Did("merge_single_ref", n, -1, -1))

\* the rewrites and abandonments a client records
RewritePairs == {<<1, 2>>, <<1, 3>>}

AbandonInputs == {1, 3}

RecordRewritten(p, old, new) ==
    /\ old \in store
    /\ new \in store
    /\ old # new
    /\ Staged(p, record_rewritten_commit(mr[p], old, new), store,
              Did("record_rewritten_commit", "", old, new))

RecordAbandoned(p, c) ==
    /\ c \in store \cap AbandonInputs
    /\ Staged(p, record_abandoned_commit(mr[p], c), store,
              Did("record_abandoned_commit", "", c, -1))

-----------------------------------------------------------------------------
(* Finalize: Transaction::commit, one step per write *)

\* what a finalize is about to write: a transaction's operation has the base
\* operation as its parent, a merge of op heads has the heads
begin_finalize(p) ==
    IF pc[p] = "merge"
    THEN fin[p]
    ELSE [NoFin EXCEPT !.kind = "tx", !.parents = {mr[p].base_repo}]

\* a finalize that goes on without having written the view
FinWriteView_view_unwritten(p) ==
    /\ pc[p] \in {"tx", "merge"}
    /\ LET c == consume(mr[p])
       IN  fin' = [fin EXCEPT ![p] = [begin_finalize(p) EXCEPT !.view = c.view,
                                                             !.index = c.index]]
    /\ pc' = [pc EXCEPT ![p] = "fin_op"]
    /\ UNCHANGED <<fs, res, ro, rb, persisted, repo, mr, last, steps, started>>

\* MutableRepo::consume and OpStore::write_view
FinWriteView(p) ==
    /\ pc[p] \in {"tx", "merge"}
    /\ LET c == consume(mr[p])
       IN  /\ viewStore' = viewStore \cup {c.view}
           /\ fin' = [fin EXCEPT ![p] = [begin_finalize(p) EXCEPT !.view = c.view,
                                                                 !.index = c.index]]
    /\ pc' = [pc EXCEPT ![p] = "fin_op"]
    /\ UNCHANGED <<fs, res, ro, rb, store, opStore, opHeads, everHead, repo, mr, last, steps, started>>

\* the operation built at this point of a finalize
new_operation(p) ==
    [parents  |-> fin[p].parents,
     view     |-> fin[p].view,
     index    |-> fin[p].index,
     metadata |-> operation_metadata(fin[p].kind, p)]

\* OpStore::write_operation
FinWriteOp(p) ==
    /\ pc[p] = "fin_op"
    /\ LET op == new_operation(p)
           id == operation_id(op)
       IN  /\ opStore' = IF id \in OpIds THEN opStore ELSE opStore @@ (id :> op)
           /\ fin' = [fin EXCEPT ![p].id = id]
    /\ pc' = [pc EXCEPT ![p] = "fin_add"]
    /\ UNCHANGED <<fs, res, ro, rb, store, viewStore, opHeads, everHead, repo, mr, last, steps, started>>

\* a head update that removes the old heads without adding the new one
FinAddHead_removing_only(p) ==
    /\ pc[p] = "fin_add"
    /\ fin' = [fin EXCEPT ![p].remove = IF fin[p].kind = "merge"
                                        THEN fin[p].heads
                                        ELSE fin[p].parents]
    /\ pc' = [pc EXCEPT ![p] = "fin_remove"]
    /\ UNCHANGED <<fs, res, ro, rb, store, viewStore, opStore, opHeads, everHead, repo, mr, last, steps, started>>

\* OpHeadsStore::add_op_head: creating a head that exists changes nothing.
\* A transaction's parents are removed next; a merge replaces the heads read.
FinAddHead(p) ==
    /\ pc[p] = "fin_add"
    /\ opHeads' = opHeads \cup {fin[p].id}
    /\ everHead' = everHead \cup {fin[p].id}
    /\ fin' = [fin EXCEPT ![p].remove = IF fin[p].kind = "merge"
                                        THEN fin[p].heads
                                        ELSE fin[p].parents]
    /\ pc' = [pc EXCEPT ![p] = "fin_remove"]
    /\ UNCHANGED <<fs, res, ro, rb, store, viewStore, opStore, repo, mr, last, steps, started>>

\* OpHeadsStore::remove_op_head, for one head after the other
FinRemoveHead(p, h) ==
    /\ pc[p] = "fin_remove"
    /\ fin[p].remove # {}
    /\ h = MinOf(fin[p].remove)
    /\ opHeads' = opHeads \ {h}
    /\ fin' = [fin EXCEPT ![p].remove = @ \ {h}]
    /\ UNCHANGED <<fs, res, ro, rb, store, viewStore, opStore, everHead, pc, repo, mr, last, steps, started>>

\* the finalize returns the snapshot at the new operation
FinDone(p) ==
    /\ pc[p] = "fin_remove"
    /\ fin[p].remove = {}
    /\ pc' = [pc EXCEPT ![p] = "idle"]
    /\ repo' = [repo EXCEPT ![p] = fin[p].id]
    /\ mr' = [mr EXCEPT ![p] = NoMut]
    /\ fin' = [fin EXCEPT ![p] = NoFin]
    /\ last' = [last EXCEPT ![p] = NoLast]
    /\ UNCHANGED <<fs, res, ro, rb, persisted, steps, started>>

\* a finalize fails part-way: the error is reported, the transaction is lost
FinFail(p) ==
    /\ pc[p] \in {"fin_op", "fin_add", "fin_remove"}
    /\ fin[p].kind = "tx"
    /\ pc' = [pc EXCEPT ![p] = "idle"]
    /\ mr' = [mr EXCEPT ![p] = NoMut]
    /\ fin' = [fin EXCEPT ![p] = NoFin]
    /\ last' = [last EXCEPT ![p] = NoLast]
    /\ UNCHANGED <<fs, res, ro, rb, persisted, repo, steps, started>>

Finalize(p) ==
    \/ FinWriteView(p)
    \/ FinWriteOp(p)
    \/ FinAddHead(p)
    \/ \E h \in OpIds : FinRemoveHead(p, h)
    \/ FinDone(p)
    \/ FinFail(p)

-----------------------------------------------------------------------------
(* Spec: one process staging every kind of mutation *)

Mutate(p) ==
    \/ \E c \in CommitIds :
          \/ WriteCommit(p, c)
          \/ AddHead(p, c)
          \/ RemoveHead(p, c)
          \/ AddPublicHead(p, c)
          \/ RemovePublicHead(p, c)
          \/ SetCheckout(p, c)
          \/ CheckOut(p, c)
          \/ CheckOutPanic(p, c)
          \/ RecordAbandoned(p, c)
    \/ \E pair \in RewritePairs : RecordRewritten(p, pair[1], pair[2])
    \/ \E t \in TargetInputs :
          \/ \E n \in BranchNames : SetLocalBranch(p, n, t)
          \/ \E n \in TagNames : SetTag(p, n, t)
          \/ \E n \in GitRefNames : SetGitRef(p, n, t)
    \/ \E n \in BranchNames : RemoveLocalBranch(p, n)
    \/ \E n \in TagNames : RemoveTag(p, n)
    \/ \E n \in GitRefNames : RemoveGitRef(p, n)
    \/ \E b, o \in OpIds : Merge(p, b, o)
    \/ \E bt, ot \in SingleRefInputs : MergeSingleRef(p, "main", bt, ot)

\* Transaction::commit as one step: consume, write the view and the
\* operation, add the new op head, remove the parent
Commit(p) ==
    /\ pc[p] = "tx"
    /\ LET c  == consume(mr[p])
           op == [parents  |-> {mr[p].base_repo},
                  view     |-> c.view,
                  index    |-> c.index,
                  metadata |-> operation_metadata("tx", p)]
           id == operation_id(op)
       IN  /\ viewStore' = viewStore \cup {c.view}
           /\ opStore' = opStore @@ (id :> op)
           /\ opHeads' = (opHeads \cup {id}) \ {mr[p].base_repo}
           /\ everHead' = everHead \cup {id}
           /\ repo' = [repo EXCEPT ![p] = id]
    /\ pc' = [pc EXCEPT ![p] = "idle"]
    /\ mr' = [mr EXCEPT ![p] = NoMut]
    /\ last' = [last EXCEPT ![p] = NoLast]
    /\ UNCHANGED <<fs, res, ro, rb, store, fin, steps, started>>

Next ==
    \/ StartTransaction("p1")
    \/ Drop("p1")
    \/ \E o \in OpIds : StartTransactionAt("p1", o)
    \/ Mutate("p1")
    \/ Commit("p1")

Spec == Init /\ [][Next]_vars

-----------------------------------------------------------------------------
(* SpecOps: processes that load the op head, move branches and finalize *)

\* OpHeadsStore::get_single_op_head, steps 1 to 3: the head ids are read and
\* one is left after trimming.  A command loads the snapshot at it with
\* RepoLoader::load_at_head and starts its transaction there.
LoadSingle(p) ==
    /\ Cardinality(trim_heads(opHeads)) = 1
    /\ \E h \in trim_heads(opHeads) :
          IF h = repo[p] THEN StartTransaction(p) ELSE StartTransactionAt(p, h)

\* steps 1, 2 and 4, merge mode: the head ids are read and the views of the
\* heads left are merged in a transaction whose operation has them as
\* parents; it is then written like any other
LoadMerge(p) ==
    /\ pc[p] = "idle"
    /\ Cardinality(trim_heads(opHeads)) > 1
    /\ \/ Cardinality({o \in OpIds : opStore[o].metadata.kind = "merge"}) < MaxMerges
       \/ \E o \in OpIds : /\ opStore[o].metadata.kind = "merge"
                           /\ opStore[o].parents = trim_heads(opHeads)
    /\ mr' = [mr EXCEPT ![p] = merge_op_heads(trim_heads(opHeads))]
    /\ fin' = [fin EXCEPT ![p] = [NoFin EXCEPT !.kind = "merge",
                                              !.parents = trim_heads(opHeads),
                                              !.heads = opHeads]]
    /\ pc' = [pc EXCEPT ![p] = "merge"]
    /\ UNCHANGED <<fs, res, ro, rb, persisted, repo, last, steps, started>>

MoveTargets == {1}

MovesMade(p) == IF last[p].op = "" THEN 0 ELSE last[p].y

\* `branch set`: the branch is pointed at a commit
BranchMove(p, n, c) ==
    /\ pc[p] = "tx"
    /\ MovesMade(p) < MaxMoves
    /\ c \in store
    /\ mr[p].view.branches[n] # Normal(c)
    /\ mr' = [mr EXCEPT ![p] = set_local_branch(mr[p], n, Normal(c))]
    /\ last' = [last EXCEPT ![p] = Did("set_local_branch", n, 0, MovesMade(p) + 1)]
    /\ UNCHANGED <<fs, res, ro, rb, persisted, pc, repo, fin, steps, started>>

NextOps ==
    \E p \in Procs :
        \/ LoadSingle(p)
        \/ LoadMerge(p)
        \/ \E n \in BranchNames, c \in MoveTargets : BranchMove(p, n, c)
        \/ Drop(p)
        \/ Finalize(p)

SpecOps == Init /\ [][NextOps]_vars

-----------------------------------------------------------------------------
(* Claims checked under Spec *)

\* every view a transaction has written or is staging
FinalViews == {opStore[o].view : o \in TxOps}

StagedViews == {mr[p].view : p \in {q \in Procs : pc[q] # "idle"}}

targets(v) ==
    {v.branches[n] : n \in BranchNames}
    \cup {v.tags[n] : n \in TagNames}
    \cup {v.git_refs[n] : n \in GitRefNames}

ViewInvariantH(v) ==
    v.head_ids = heads(v.head_ids \cup v.public_head_ids \cup {v.checkout}
                       \cup referenced(v))

\* C1: the view of every finalized transaction has head_ids equal to the
\* DAG-heads of head_ids, public_head_ids, the checkout and the commits its
\* branches, tags and git refs name.
C1_HeadsAreDagHeadsOfAll == \A v \in FinalViews : ViewInvariantH(v)

\* C7: in every view a transaction produced, the checkout commit is a member
\* of head_ids.
C7_CheckoutInHeads == \A v \in FinalViews : v.checkout \in v.head_ids

StagedStep(p) == pc[p] = "tx" /\ pc'[p] = "tx" /\ steps' = steps + 1

TakesUnchangedSide(base_t, self_t, other_t, result_t) ==
    /\ self_t = base_t => result_t = other_t
    /\ other_t = base_t => result_t = self_t

\* C8: for every keyed ref (branch, tag, git ref, checkout) the three-way
\* merge gives other's value when self's equals base's and self's value when
\* other's equals base's, absence counting as a value.
C8_MergeTakesChangedSide ==
    [][/\ \A b, o \in OpIds :
            (StagedStep("p1") /\ last'["p1"] = Did("merge", "", b, o)) =>
               LET self   == enforce_view_invariants(mr["p1"]).view
                   base   == opStore[b].view
                   other  == opStore[o].view
                   result == mr'["p1"].view
               IN  /\ \A n \in BranchNames :
                        TakesUnchangedSide(base.branches[n], self.branches[n],
                                           other.branches[n], result.branches[n])
                   /\ \A n \in TagNames :
                        TakesUnchangedSide(base.tags[n], self.tags[n],
                                           other.tags[n], result.tags[n])
                   /\ \A n \in GitRefNames :
                        TakesUnchangedSide(base.git_refs[n], self.git_refs[n],
                                           other.git_refs[n], result.git_refs[n])
                   /\ TakesUnchangedSide(base.checkout, self.checkout,
                                         other.checkout, result.checkout)
       /\ \A bt, ot \in SingleRefInputs :
            (/\ StagedStep("p1")
             /\ last'["p1"].op = "merge_single_ref"
             /\ mr'["p1"] = merge_single_ref(mr["p1"], "main", bt, ot)) =>
               TakesUnchangedSide(bt, mr["p1"].view.branches["main"], ot,
                                  mr'["p1"].view.branches["main"])]_vars

\* a merge in which the other side deleted a branch that self left alone
C8_Witness ==
    /\ pc["p1"] = "tx"
    /\ last["p1"].op = "merge"
    /\ opStore[last["p1"].x].view.branches["main"] = Normal(0)
    /\ opStore[last["p1"].y].view.branches["main"] = Absent
    /\ opStore[mr["p1"].base_repo].view.branches["main"] = Normal(0)
    /\ mr["p1"].view.branches["main"] = Absent

OneMoreAdd(t) == t # Absent => Size(t.adds) = Size(t.removes) + 1

\* C9: every RefTarget in a view, after any ref mutation or three-way merge,
\* has exactly one more add than removes.
C9_OneMoreAddThanRemoves ==
    \A v \in FinalViews \cup StagedViews : \A t \in targets(v) : OneMoreAdd(t)

Simplified(t) ==
    /\ \A c \in CommitIds : ~ (t.adds[c] > 0 /\ t.removes[c] > 0)
    /\ (Size(t.adds) = 1 /\ Size(t.removes) = 0) <=> t.kind = "normal"
    /\ (Size(t.adds) = 0 /\ Size(t.removes) = 0) <=> t.kind = "absent"

-----------------------------------------------------------------------------
(* Claims checked under SpecOps *)

\* a reader's merge of op heads has been written and has replaced the heads
MergeDone(p) == pc[p] = "fin_remove" /\ fin[p].kind = "merge" /\ fin[p].remove = {}

\* two transactions' operations with the one parent O
Siblings(A, B, O) ==
    /\ A # B
    /\ {A, B} \subseteq TxOps
    /\ opStore[A].parents = {O}
    /\ opStore[B].parents = {O}

\* no operation but M and its ancestors has ever been an op head
Quiet(M) == everHead \subseteq op_ancestors(M)

\* C2: when two transactions started from one operation O have been
\* finalized as A and B and a reader resolves the op head, the reader writes
\* a new operation M with parents {A, B} whose view has, for every branch
\* only one of them changed, that one's value; the op-head set is then {M}.
C2_ConcurrentTransactionsMerged ==
    \A p \in Procs : MergeDone(p) =>
        \A A, B, O \in OpIds :
            (Siblings(A, B, O) /\ fin[p].parents = {A, B}) =>
                LET M == fin[p].id
                IN  /\ M \in OpIds \ {A, B, O}
                    /\ opStore[M].parents = {A, B}
                    /\ \A n \in BranchNames :
                         TakesUnchangedSide(opStore[O].view.branches[n],
                                            opStore[A].view.branches[n],
                                            opStore[B].view.branches[n],
                                            opStore[M].view.branches[n])
                    /\ Quiet(M) => opHeads = {M}

\* one transaction moved main, the other dev; the merge has both
C2_Witness ==
    \E p \in Procs : \E A, B \in OpIds :
        /\ MergeDone(p)
        /\ Siblings(A, B, 0)
        /\ fin[p].parents = {A, B}
        /\ opStore[A].view.branches = [main |-> Normal(1), dev |-> Absent]
        /\ opStore[B].view.branches = [main |-> Absent, dev |-> Normal(1)]
        /\ opStore[fin[p].id].view.branches = [main |-> Normal(1), dev |-> Normal(1)]
        /\ opHeads = {fin[p].id}

\* the operation and its view are in the OpStore
written(o) == o \in OpIds /\ opStore[o].view \in viewStore

\* C3: an operation is an op head only after it and its view have been
\* written, and the snapshot a process holds is always that of an operation
\* that has been an op head, whole, also when a finalize failed part-way.
C3_SingleLinearizationPoint ==
    /\ \A h \in everHead : written(h)
    /\ opHeads \subseteq everHead
    /\ \A p \in Procs : repo[p] \in everHead

\* a reader has loaded the new operation while its writer has yet to remove
\* the parent from the op-head set
C3_Witness ==
    \E p, q \in Procs :
        /\ p # q
        /\ pc[q] = "fin_remove"
        /\ fin[q].kind = "tx"
        /\ fin[q].remove # {}
        /\ fin[q].remove \subseteq opHeads
        /\ pc[p] = "tx"
        /\ repo[p] = fin[q].id

\* C39: under every interleaving of finalizing transactions and op-head
\* resolutions, merge mode included, by several processes, the op-head set
\* is not empty and every id in it names an operation that is in the OpStore
\* whole: its view and its parents are written.
C39_OpHeadsNonEmptyAndWritten ==
    /\ opHeads # {}
    /\ \A h \in opHeads :
          /\ h \in DOMAIN opStore
          /\ opStore[h].view \in viewStore
          /\ opStore[h].parents \subseteq DOMAIN opStore

\* two transactions on the same operation left two heads; one process is
\* removing the heads it merged, its merge operation a head besides them,
\* while the other process has read the heads and is writing its own merge
C39_Witness ==
    \E p, q \in Procs :
        /\ p # q
        /\ pc[p] = "fin_remove"
        /\ fin[p].kind = "merge"
        /\ fin[p].remove # {}
        /\ fin[p].id \in opHeads
        /\ Cardinality(opHeads) >= 2
        /\ pc[q] = "fin_add"
        /\ fin[q].kind = "merge"

MergeOps == {o \in OpIds : opStore[o].metadata.kind = "merge"}

C6_ParentIsBaseSnapshot ==
    [][/\ \A o \in OpIds : o \in DOMAIN opStore' /\ opStore'[o] = opStore[o]
       /\ viewStore \subseteq viewStore'
       /\ \A p \in Procs :
            /\ (pc[p] # "idle" /\ fin[p].kind # "merge" /\ pc'[p] # "idle") =>
                  repo'[p] = repo[p]
            /\ (pc[p] = "fin_op" /\ pc'[p] = "fin_add" /\ fin[p].kind = "tx") =>
                  opStore'[fin'[p].id].parents = {repo[p]}]_vars

\* a transaction's operation was written after another operation had
\* replaced its base as the op head
C6_Witness ==
    \E p \in Procs :
        /\ pc[p] = "fin_add"
        /\ fin[p].kind = "tx"
        /\ opStore[fin[p].id].parents = {repo[p]}
        /\ repo[p] \notin opHeads

-----------------------------------------------------------------------------
(* Claims checked under Spec: merge of the head sets, branch set *)

\* the three-way merge of a head set, as C11 states it
MergedHeads(base, self, other, result) ==
    /\ result = heads((self \cup other) \ (base \ (self \cap other)))
    /\ result = heads((other \cup self) \ (base \ (other \cap self)))
    /\ \A c \in (self \cup other) \ base : \E d \in result : is_ancestor(c, d)
    /\ \A c \in base \ (self \cap other) : c \notin result

\* C11: MutableRepo::merge leaves head_ids and public_head_ids at the
\* DAG-heads of (self + other) - (base - (self & other)), self being the view
\* with its invariants enforced: a head either side added is kept (or has a
\* descendant that is), a base head either side dropped is dropped, and self
\* and other can be exchanged; the index holds both indexes, and the view is
\* left dirty, so that consume has head_ids cover the public heads again.
C11_MergedHeadsAreDagHeads ==
    [][\A b, o \in OpIds :
          (StagedStep("p1") /\ last'["p1"] = Did("merge", "", b, o)) =>
             LET self   == enforce_view_invariants(mr["p1"]).view
                 base   == opStore[b].view
                 other  == opStore[o].view
                 result == mr'["p1"].view
                 final  == consume(mr'["p1"]).view
             IN  /\ MergedHeads(base.head_ids, self.head_ids, other.head_ids,
                                result.head_ids)
                 /\ MergedHeads(base.public_head_ids, self.public_head_ids,
                                other.public_head_ids, result.public_head_ids)
                 /\ mr'["p1"].index = mr["p1"].index \cup opStore[b].index
                                                     \cup opStore[o].index
                 /\ mr'["p1"].view_dirty
                 /\ final.head_ids =
                       heads(result.head_ids \cup result.public_head_ids)]_vars

\* a merge in which the other side replaced the base's head and self, with
\* a public head added, follows it
C11_Witness ==
    /\ pc["p1"] = "tx"
    /\ last["p1"].op = "merge"
    /\ opStore[last["p1"].x].view.head_ids # opStore[last["p1"].y].view.head_ids
    /\ opStore[mr["p1"].base_repo].view.head_ids = opStore[last["p1"].x].view.head_ids
    /\ mr["p1"].view.head_ids = opStore[last["p1"].y].view.head_ids
    /\ mr["p1"].view_dirty

\* C12: a transaction that sets branch n to t and then sets n to t2 holds
\* exactly the MutableRepo a single set of n to t2 gives: the branch is t2
\* (normalized), with nothing of t in its adds or removes, and every other
\* part of the view is as the transaction found it.
C12_LastBranchSetWins ==
    [][\A n \in BranchNames : \A t, t2 \in TargetInputs :
          LET start == start_transaction(repo["p1"])
          IN  (/\ StagedStep("p1")
               /\ last["p1"].op = "set_local_branch" /\ last["p1"].n = n
               /\ mr["p1"] = set_local_branch(start, n, t)
               /\ last'["p1"].op = "set_local_branch" /\ last'["p1"].n = n
               /\ refIds(t2) \subseteq store
               /\ mr'["p1"] = set_local_branch(mr["p1"], n, t2)) =>
                  /\ mr'["p1"] = set_local_branch(start, n, t2)
                  /\ mr'["p1"].view =
                        [start.view EXCEPT !.branches[n] = normalized(t2)]
                  /\ refIds(mr'["p1"].view.branches[n]) \subseteq refIds(t2)]_vars

\* branch main was set to commit 0 and then to commit 1
C12_Witness ==
    /\ pc["p1"] = "tx"
    /\ steps = 2
    /\ last["p1"].op = "set_local_branch" /\ last["p1"].n = "main"
    /\ opStore[repo["p1"]].view.branches["main"] = Absent
    /\ mr["p1"] = set_local_branch(set_local_branch(start_transaction(repo["p1"]),
                                                      "main", Normal(0)),
                                     "main", Normal(1))

-----------------------------------------------------------------------------
(* SpecCli: `jj branch set`, run on repositories a transaction has prepared *)

\* is_fast_forward(repo, old_target, new_target_id): a present target moves
\* forward when one of the commits it adds is an ancestor of the new one
is_fast_forward(old_target, new_target_id) ==
    old_target = Absent
    \/ \E old \in CommitIds : old_target.adds[old] > 0 /\ is_ancestor(old, new_target_id)

NoError == [message |-> "", name |-> ""]

\* a check that refuses whatever --allow-backwards says
branch_set_error_ignoring_flag(v, names, target_commit, allow_backwards) ==
    LET bad == {i \in 1..Len(names) :
                  \/ v.branches[names[i]] = Absent
                  \/ ~ is_fast_forward(v.branches[names[i]], target_commit)}
    IN  IF bad = {} THEN NoError
        ELSE LET name == names[MinOf(bad)]
             IN  IF v.branches[name] = Absent
                 THEN [message |-> "No such branch", name |-> name]
                 ELSE [message |-> "Refusing to move branch backwards or sideways",
                       name |-> name]

\* a check of the first name only
branch_set_error_of_first(v, names, target_commit, allow_backwards) ==
    LET name == names[1]
    IN  IF v.branches[name] = Absent
        THEN [message |-> "No such branch", name |-> name]
        ELSE IF ~ allow_backwards /\ ~ is_fast_forward(v.branches[name], target_commit)
        THEN [message |-> "Refusing to move branch backwards or sideways", name |-> name]
        ELSE NoError

\* the loop over the names before the transaction: the error of the first
\* name that fails a check
branch_set_error(v, names, target_commit, allow_backwards) ==
    LET bad == {i \in 1..Len(names) :
                  \/ v.branches[names[i]] = Absent
                  \/ (~ allow_backwards
                      /\ ~ is_fast_forward(v.branches[names[i]], target_commit))}
    IN  IF bad = {} THEN NoError
        ELSE LET name == names[MinOf(bad)]
             IN  IF v.branches[name] = Absent
                 THEN [message |-> "No such branch", name |-> name]
                 ELSE [message |-> "Refusing to move branch backwards or sideways",
                       name |-> name]

\* the loop over the names in the transaction
RECURSIVE set_branches(_, _, _)
set_branches(m, names, target_commit) ==
    IF names = <<>> THEN m
    ELSE set_branches(set_local_branch(m, Head(names), Normal(target_commit)),
                      Tail(names), target_commit)

\* the names and the flag a user gives
NameLists == {<<"main">>, <<"dev">>, <<"main", "dev">>}

\* cmd_branch_set: every name is checked against the loaded repo; only then
\* is the transaction started, the branches set and the transaction finished
CmdBranchSet(p, names, target_commit, allow_backwards) ==
    /\ pc[p] = "idle"
    /\ target_commit \in opStore[repo[p]].index
    /\ LET error == branch_set_error(opStore[repo[p]].view, names, target_commit,
                                     allow_backwards)
       IN  IF error # NoError
           THEN /\ last' = [last EXCEPT ![p] =
                              [Did(error.message, error.name, target_commit,
                                   IF allow_backwards THEN 1 ELSE 0)
                                 EXCEPT !.names = names]]
                /\ UNCHANGED <<fs, res, ro, rb, persisted, pc, repo, mr, fin, steps, started>>
           ELSE /\ started < MaxTx
                /\ started' = started + 1
                /\ LET tx == set_branches(start_transaction(repo[p]), names,
                                          target_commit)
                       c  == consume(tx)
                       op == [parents  |-> {tx.base_repo},
                              view     |-> c.view,
                              index    |-> c.index,
                              metadata |-> operation_metadata("tx", p)]
                       id == operation_id(op)
                   IN  /\ viewStore' = viewStore \cup {c.view}
                       /\ opStore' = opStore @@ (id :> op)
                       /\ opHeads' = (opHeads \cup {id}) \ {tx.base_repo}
                       /\ everHead' = everHead \cup {id}
                       /\ repo' = [repo EXCEPT ![p] = id]
                /\ last' = [last EXCEPT ![p] =
                              [Did("point to commit", "", target_commit,
                                   IF allow_backwards THEN 1 ELSE 0)
                                 EXCEPT !.names = names]]
                /\ UNCHANGED <<fs, res, ro, rb, store, pc, mr, fin, steps>>

NextCli ==
    \/ StartTransaction("p1")
    \/ \E c \in CommitIds : WriteCommit("p1", c)
    \/ \E n \in BranchNames, t \in TargetInputs : SetLocalBranch("p1", n, t)
    \/ Commit("p1")
    \/ \E names \in NameLists, c \in CommitIds, allow_backwards \in BOOLEAN :
          CmdBranchSet("p1", names, c, allow_backwards)

SpecCli == Init /\ [][NextCli]_vars

\* C13: `branch set b` to a commit Y, b being at X in the loaded repo and X
\* no ancestor of Y, ends with the error "Refusing to move branch backwards
\* or sideways" naming b, and neither a transaction nor anything persisted
\* has changed; with --allow-backwards it writes one operation, the new op
\* head, in whose view b is Normal(Y) and everything else is as it was.
C13_BackwardsMoveRefused ==
    [][\A b \in BranchNames, X, Y \in CommitIds :
          LET before == opStore[repo["p1"]].view
          IN  (before.branches[b] = Normal(X) /\ ~ is_ancestor(X, Y)) =>
                /\ CmdBranchSet("p1", <<b>>, Y, FALSE) =>
                      /\ last'["p1"].op = "Refusing to move branch backwards or sideways"
                      /\ last'["p1"].n = b
                      /\ UNCHANGED <<persisted, pc, repo, mr, started>>
                /\ CmdBranchSet("p1", <<b>>, Y, TRUE) =>
                      /\ last'["p1"].op = "point to commit"
                      /\ repo'["p1"] \notin OpIds
                      /\ opHeads' = {repo'["p1"]}
                      /\ opStore'[repo'["p1"]].parents = {repo["p1"]}
                      /\ opStore'[repo'["p1"]].view =
                            [before EXCEPT !.branches[b] = Normal(Y)]]_vars

\* branch main was at commit 2 and has been moved back to the root commit
C13_Witness ==
    /\ pc["p1"] = "idle"
    /\ last["p1"] = [Did("point to commit", "", 0, 1) EXCEPT !.names = <<"main">>]
    /\ opStore[repo["p1"]].view.branches["main"] = Normal(0)
    /\ \E o \in opStore[repo["p1"]].parents :
          opStore[o].view.branches["main"] = Normal(2)

\* the same move was asked for without the flag and refused
C13_WitnessRefused ==
    /\ pc["p1"] = "idle"
    /\ last["p1"] = [Did("Refusing to move branch backwards or sideways", "main", 0, 0)
                        EXCEPT !.names = <<"main">>]
    /\ opStore[repo["p1"]].view.branches["main"] = Normal(2)

\* name may not be set to target_commit in view v
Offending(v, name, target_commit, allow_backwards) ==
    \/ v.branches[name] = Absent
    \/ ~ allow_backwards /\ ~ is_fast_forward(v.branches[name], target_commit)

\* C38: `branch set` with several names either moves every named branch to
\* Normal(target) in one operation, or, when any one name does not exist or
\* would move backwards or sideways without --allow-backwards, moves no
\* branch and creates no operation, wherever that name is in the list.
C38_AllOrNothing ==
    [][\A names \in NameLists, Y \in CommitIds, allow_backwards \in BOOLEAN :
          LET before == opStore[repo["p1"]].view
          IN  CmdBranchSet("p1", names, Y, allow_backwards) =>
                 IF \E i \in 1..Len(names) : Offending(before, names[i], Y, allow_backwards)
                 THEN /\ last'["p1"].op \in {"No such branch",
                                             "Refusing to move branch backwards or sideways"}
                      /\ UNCHANGED <<persisted, pc, repo, mr, started>>
                 ELSE /\ last'["p1"].op = "point to commit"
                      /\ DOMAIN opStore' \ DOMAIN opStore \subseteq {repo'["p1"]}
                      /\ opHeads' = {repo'["p1"]}
                      /\ opStore'[repo'["p1"]].parents = {repo["p1"]}
                      /\ opStore'[repo'["p1"]].view =
                            [before EXCEPT !.branches =
                                [n \in BranchNames |->
                                    IF \E i \in 1..Len(names) : names[i] = n
                                    THEN Normal(Y) ELSE @[n]]]]_vars

\* main and dev were named; main could move to commit 2 and dev does not
\* exist: the command was refused and main is where it was
C38_Witness ==
    /\ pc["p1"] = "idle"
    /\ last["p1"].names = <<"main", "dev">>
    /\ last["p1"].op = "No such branch" /\ last["p1"].n = "dev"
    /\ last["p1"].x = 2
    /\ opStore[repo["p1"]].view.branches["main"] = Normal(1)
    /\ opStore[repo["p1"]].view.branches["dev"] = Absent

\* main and dev were named and both are at the target in the one operation
\* the command wrote
C38_WitnessMoved ==
    /\ pc["p1"] = "idle"
    /\ last["p1"].names = <<"main", "dev">>
    /\ last["p1"].op = "point to commit"
    /\ \E Y \in CommitIds :
          /\ opStore[repo["p1"]].view.branches["main"] = Normal(Y)
          /\ opStore[repo["p1"]].view.branches["dev"] = Normal(Y)
          /\ \A o \in opStore[repo["p1"]].parents :
                /\ opStore[o].view.branches["main"] \notin {Absent, Normal(Y)}
                /\ opStore[o].view.branches["dev"] \notin {Absent, Normal(Y)}

\* main and dev were named and main, the first, would have moved backwards
C38_WitnessFirst ==
    /\ pc["p1"] = "idle"
    /\ last["p1"].names = <<"main", "dev">>
    /\ last["p1"].op = "Refusing to move branch backwards or sideways"
    /\ last["p1"].n = "main"
    /\ ~ Offending(opStore[repo["p1"]].view, "dev", last["p1"].x, FALSE)

-----------------------------------------------------------------------------
(* SpecRebase: a client records rewrites and abandonments and rebases the  *)
(* descendants, or parallelizes a set of commits                           *)

\* the parents of a repository's commits, commit i having parents[i]: no
\* parent is an ancestor of another parent
ParentLists(n) ==
    LET ordered == {parents \in [1..n -> SUBSET (0..(n - 1))] :
                      \A i \in 1..n : parents[i] # {} /\ parents[i] \subseteq 0..(i - 1)}
    IN  {parents \in ordered :
            \A i \in 1..n :
                index_heads(Repository(parents, 0, 0).commits, parents[i]) = parents[i]}

\* the repositories of the parallelize tests: a chain with a child on an
\* interior commit, a merge child of an interior commit, a merge head over
\* two chains, and two chains
TestGraphs ==
    {<<{0}, {1}, {2}, {3}, {2}, {4}>>,
     <<{0}, {1}, {2}, {0}, {2, 4}, {3}>>,
     <<{0}, {1}, {2}, {0}, {4}, {3, 5}>>,
     <<{0}, {1}, {2}, {0}, {4}, {5}>>}

Graphs == TestGraphs \cup UNION {ParentLists(n) : n \in 1..MaxSmall}

InitRebase ==
    /\ store = {root_commit_id, 1}
    /\ viewStore = {root_view}
    /\ opStore = (0 :> root_operation)
    /\ opHeads = {0}
    /\ pc = [p \in Procs |-> "idle"]
    /\ repo = [p \in Procs |-> 0]
    /\ mr = [p \in Procs |-> NoMut]
    /\ fin = [p \in Procs |-> NoFin]
    /\ last = [p \in Procs |-> NoLast]
    /\ steps = 0
    /\ started = 0
    /\ everHead = {0}
    /\ rb \in UNION {{Repository(parents, x, y) :
                         x \in 1..Len(parents), y \in 1..Len(parents)} :
                     parents \in Graphs}
    /\ fs = NoFs
    /\ ro = NoRo
    /\ res = NoRes

repoVars ==
    <<store, viewStore, opStore, opHeads, pc, repo, mr, fin, last, steps, started,
      everHead, ro, res, fs>>

rewritten_keys(m) == {c \in DOMAIN m.commits : m.rewritten_commits[c] # {}}

successors(m) == UNION {m.rewritten_commits[c] : c \in DOMAIN m.commits}

\* the records a client hands to one rebase: no successor descends from a
\* commit recorded as rewritten or abandoned (the client rebases before it
\* rewrites on top of such a commit)
Rebasable(m) ==
    index_descendants(m.commits, rewritten_keys(m) \cup m.abandoned_commits)
       \cap successors(m) = {}

\* a client rewrites commit c, on c's parents or on the root commit, and
\* records the rewrite.  The records are sets: the client is taken to make
\* them in the order of the commits.
RbRewrite(c, onto_root) ==
    LET parents == IF onto_root THEN {root_commit_id} ELSE rb.commits[c].parent_ids
        new     == rewritten_commit(rb.commits, c, parents)
        new_id  == backend_commit_id(rb.commits, new)
    IN  /\ rb.did = ""
        /\ Cardinality(successors(rb)) + Cardinality(rb.abandoned_commits) < MaxRecords
        /\ c \in DOMAIN rb.commits \ ({root_commit_id} \cup rb.abandoned_commits
                                       \cup successors(rb))
        /\ new_id \notin DOMAIN rb.commits
        /\ \A k \in rewritten_keys(rb) \cup rb.abandoned_commits : k <= c
        /\ Rebasable(record_rewritten_commit(rb_write_commit(rb, new), c, new_id))
        /\ rb' = record_rewritten_commit(rb_write_commit(rb, new), c, new_id)
        /\ UNCHANGED repoVars

\* a client abandons commit c
RbAbandon(c) ==
    /\ rb.did = ""
    /\ Cardinality(successors(rb)) + Cardinality(rb.abandoned_commits) < MaxRecords
    /\ c \in DOMAIN rb.commits \ ({root_commit_id} \cup rb.abandoned_commits
                                   \cup rewritten_keys(rb) \cup successors(rb))
    /\ \A k \in rewritten_keys(rb) \cup rb.abandoned_commits : k <= c
    /\ Rebasable(record_abandoned_commit(rb, c))
    /\ rb' = record_abandoned_commit(rb, c)
    /\ UNCHANGED repoVars

RebaseDescendants ==
    /\ rb.did = ""
    /\ rewritten_keys(rb) \cup rb.abandoned_commits # {}
    /\ rb' = rebase_descendants(rb)
    /\ UNCHANGED repoVars

\* the heads of the targets T, and the children a commit has outside T
target_heads(commits, T) ==
    {t \in T : \A c \in T : t \notin commits[c].parent_ids}

outer_children(commits, T, h) ==
    {c \in DOMAIN commits \ T : h \in commits[c].parent_ids}

\* more than one head, every head with children outside T, and the children
\* not the same for all heads
heads_have_different_children(commits, T) ==
    LET hs == target_heads(commits, T)
    IN  /\ Cardinality(hs) > 1
        /\ \A h \in hs : outer_children(commits, T, h) # {}
        /\ \E g, h \in hs : outer_children(commits, T, g) # outer_children(commits, T, h)

Parallelize_guarding_heads(T) ==
    /\ rb.did = ""
    /\ rewritten_keys(rb) \cup rb.abandoned_commits = {}
    /\ T # {}
    /\ rb' = IF heads_have_different_children(rb.commits, T)
             THEN [rb EXCEPT !.did     = "parallelize",
                             !.targets = T,
                             !.before  = [commits |-> rb.commits, view |-> rb.view,
                                          rewritten_commits |-> rb.rewritten_commits,
                                          abandoned_commits |-> rb.abandoned_commits],
                             !.message = "heads have different children"]
             ELSE parallelize(rb, T)
    /\ UNCHANGED repoVars

\* `jj parallelize` on the revisions T
Parallelize(T) ==
    /\ rb.did = ""
    /\ rewritten_keys(rb) \cup rb.abandoned_commits = {}
    /\ T # {}
    /\ rb' = parallelize(rb, T)
    /\ UNCHANGED repoVars

\* rebase_descendants once more, right after the first call
RebaseDescendantsAgain ==
    /\ rb.did = "rebase_descendants"
    /\ rb' = [rebase_descendants(rb) EXCEPT !.did = "rebase_descendants again"]
    /\ UNCHANGED repoVars

\* `jj parallelize` once more, on the revisions as the first run left them
ParallelizeAgain ==
    /\ rb.did = "parallelize"
    /\ rb' = [parallelize(rb, {IF t \in DOMAIN rb.rebased THEN rb.rebased[t] ELSE t :
                                 t \in rb.targets})
                EXCEPT !.did = "parallelize again"]
    /\ UNCHANGED repoVars

NextRebase ==
    \/ \E c \in DOMAIN rb.commits, onto_root \in BOOLEAN : RbRewrite(c, onto_root)
    \/ \E c \in DOMAIN rb.commits : RbAbandon(c)
    \/ RebaseDescendants
    \/ RebaseDescendantsAgain
    \/ \E T \in SUBSET (DOMAIN rb.commits \ {root_commit_id}) : Parallelize(T)
    \/ ParallelizeAgain

SpecRebase == InitRebase /\ [][NextRebase]_vars

-----------------------------------------------------------------------------
(* Claims checked under SpecRebase *)

\* the commits a rebase or a parallelize has written
WrittenByRewrite == DOMAIN rb.commits \ DOMAIN rb.before.commits

\* C14: every commit c' that a descendant rebase, the one parallelize runs
\* included, has written as the replacement of a commit c has the change id
\* of c and has c among its predecessors; c' is a commit the rewrite wrote.
C14_ReplacementKeepsChange ==
    rb.did # "" =>
       \A c \in DOMAIN rb.rebased :
          LET new == rb.commits[rb.rebased[c]]
          IN  /\ rb.rebased[c] \in WrittenByRewrite
              /\ new.change_id = rb.commits[c].change_id
              /\ c \in new.predecessors

\* the chain 1, 2, 3, 4 was parallelized and its descendant 6 replaced
C14_Witness ==
    /\ rb.did = "parallelize"
    /\ rb.targets = {1, 2, 3, 4}
    /\ DOMAIN rb.rebased = {2, 3, 4, 5, 6}
    /\ rb.commits[rb.rebased[6]].parent_ids = {1, rb.rebased[2], rb.rebased[3], rb.rebased[4]}
    /\ rb.commits[rb.rebased[6]].change_id = 6

\* the commits recorded as rewritten or abandoned when the rebase began; for
\* a parallelize, the targets
Recorded ==
    IF rb.did = "parallelize" THEN rb.targets
    ELSE rewritten_keys(rb.before) \cup rb.before.abandoned_commits

\* commit c is what it was, and the heads, refs and checkout at c are at c
KeptAsItWas(c) ==
    /\ c \notin DOMAIN rb.rebased
    /\ rb.commits[c] = rb.before.commits[c]
    /\ c \in rb.before.view.head_ids => c \in rb.view.head_ids
    /\ \A n \in BranchNames :
          c \in rb.before.view.branches[n].adds => c \in rb.view.branches[n].adds
    /\ rb.before.view.checkout = c => rb.view.checkout = c

\* C15 as claimed: a rebase replaces no commit that is neither recorded as
\* rewritten nor as abandoned, and the heads, refs and checkout that pointed
\* at such a commit still point at it.
C15_UnrecordedKept ==
    rb.did = "rebase_descendants" =>
       \A c \in DOMAIN rb.before.commits \ Recorded : KeptAsItWas(c)

\* commit c is what it was, the refs and the checkout at c are at c, and c
\* is a head as before unless a commit the rewrite wrote descends from it
KeptInPlace(c) ==
    /\ c \notin DOMAIN rb.rebased
    /\ rb.commits[c] = rb.before.commits[c]
    /\ c \in rb.before.view.head_ids =>
          \/ c \in rb.view.head_ids
          \/ \E d \in WrittenByRewrite : c \in index_ancestors(rb.commits, d)
    /\ \A n \in BranchNames :
          c \in rb.before.view.branches[n].adds => c \in rb.view.branches[n].adds
    /\ rb.before.view.checkout = c => rb.view.checkout = c

\* C15 as amended: a rebase, the one parallelize runs included, replaces no
\* commit that is neither recorded (a target, for parallelize) nor a
\* descendant of a recorded commit; the refs and the checkout that pointed at
\* such a commit still point at it, and it stays a head unless replacements
\* were written on top of it.
C15_UnaffectedKept ==
    rb.did # "" =>
       \A c \in DOMAIN rb.before.commits
                  \ index_descendants(rb.before.commits, Recorded) : KeptInPlace(c)

\* a rebase replaced the descendants of a recorded commit and left alone a
\* head that has the checkout and a branch and descends from none
C15_Witness ==
    /\ rb.did = "rebase_descendants"
    /\ DOMAIN rb.rebased # {}
    /\ rb.view.checkout \notin index_descendants(rb.before.commits, Recorded)
    /\ rb.view.checkout = rb.before.view.checkout
    /\ rb.view.checkout \in rb.view.head_ids
    /\ rb.view.branches["main"].adds = {rb.view.checkout}

\* C16: the successors recorded for a commit accumulate: every commit a
\* client wrote as a rewrite of c is in rewritten_commits[c].  When c has
\* more than one successor, rebase_descendants replaces every child of c by
\* a merge whose parents include all the successors, and every ref that
\* pointed at c is conflicted, with all the successors, and not c, as adds.
C16_DivergentRewrite ==
    /\ rb.did = "" =>
          \A n \in DOMAIN rb.commits : \A c \in rb.commits[n].predecessors :
             n \in rb.rewritten_commits[c]
    /\ rb.did = "rebase_descendants" =>
          \A c \in rewritten_keys(rb.before) :
             Cardinality(rb.before.rewritten_commits[c]) > 1 =>
                LET succs == rb.before.rewritten_commits[c]
                IN  /\ \A d \in DOMAIN rb.before.commits \ Recorded :
                          c \in rb.before.commits[d].parent_ids =>
                             /\ d \in DOMAIN rb.rebased
                             /\ succs \subseteq rb.commits[rb.rebased[d]].parent_ids
                             /\ Cardinality(rb.commits[rb.rebased[d]].parent_ids) > 1
                    /\ \A n \in BranchNames :
                          c \in rb.before.view.branches[n].adds =>
                             /\ succs \subseteq rb.view.branches[n].adds
                             /\ Cardinality(rb.view.branches[n].adds) > 1
                             /\ c \notin rb.view.branches[n].adds

\* commit 2 of a chain was rewritten twice; its child 3 is replaced by a
\* merge of the two successors and branch main, which was at 2, is conflicted
C16_Witness ==
    /\ rb.did = "rebase_descendants"
    /\ Cardinality(rb.before.rewritten_commits[2]) = 2
    /\ rb.before.commits[3].parent_ids = {2}
    /\ 3 \in DOMAIN rb.rebased
    /\ rb.commits[rb.rebased[3]].parent_ids = rb.before.rewritten_commits[2]
    /\ rb.before.view.branches["main"].adds = {2}
    /\ rb.view.branches["main"].adds = rb.before.rewritten_commits[2]


\* what the substitution makes of commit c of the repository before the
\* rebase: the successors of a rewritten commit, the replacement of a rebased
\* one, the images of the parents of an abandoned one, c itself otherwise
RECURSIVE Sigma(_)
Sigma(c) ==
    IF c \in rb.before.abandoned_commits
    THEN UNION {Sigma(p) : p \in rb.before.commits[c].parent_ids}
    ELSE IF rb.before.rewritten_commits[c] # {} THEN rb.before.rewritten_commits[c]
    ELSE IF c \in DOMAIN rb.rebased THEN {rb.rebased[c]}
    ELSE {c}

\* the ids of a ref target after the rebase: an abandoned commit drops out
RefImage(ids) ==
    UNION {IF c \in rb.before.abandoned_commits THEN {} ELSE Sigma(c) : c \in ids}

\* every branch holds the images of the commits it held; a branch that held
\* abandoned commits only is gone
RefsFollowSigma ==
    \A n \in BranchNames :
       /\ rb.view.branches[n].adds = RefImage(rb.before.view.branches[n].adds)
       /\ rb.view.branches[n].removes = RefImage(rb.before.view.branches[n].removes)

\* the rebased parents of the abandoned commit that was checked out
RebasedParents == index_heads(rb.commits, Sigma(rb.before.view.checkout))

\* C17 as claimed: rebase_descendants maps every commit of a ref through
\* sigma and removes a ref whose commit was abandoned, and the checkout of an
\* abandoned commit moves to that commit's rebased parent.
C17_CheckoutMovesToParent ==
    rb.did = "rebase_descendants" =>
       /\ RefsFollowSigma
       /\ rb.before.view.checkout \in rb.before.abandoned_commits =>
             rb.view.checkout \in RebasedParents

\* C17: rebase_descendants maps every commit of a ref through sigma and
\* removes a ref whose commit was abandoned; the checkout of an abandoned
\* commit moves to that commit's rebased parent, and when that parent is the
\* root commit it moves to a new commit written on the root, which is a head.
C17_RefsAndCheckoutFollow ==
    rb.did = "rebase_descendants" =>
       /\ RefsFollowSigma
       /\ rb.before.view.checkout \in rb.before.abandoned_commits =>
             IF RebasedParents = {root_commit_id}
             THEN /\ rb.view.checkout \notin DOMAIN rb.before.commits
                  /\ rb.view.checkout \notin DOMAIN rb.rebased
                  /\ rb.commits[rb.view.checkout].parent_ids = {root_commit_id}
                  /\ rb.commits[rb.view.checkout].predecessors = {}
                  /\ rb.view.checkout \in rb.view.head_ids
             ELSE rb.view.checkout \in RebasedParents

\* commit 1 on the root, checked out and held by main, was abandoned and
\* its child 2, held by dev, was rebased: main is gone, dev is at the
\* replacement of 2 and the checkout is a new commit on the root
C17_Witness ==
    /\ rb.did = "rebase_descendants"
    /\ rb.before.abandoned_commits = {1}
    /\ rb.before.view.checkout = 1
    /\ rb.before.view.branches["main"].adds = {1}
    /\ rb.before.view.branches["dev"].adds = {2}
    /\ rb.view.branches["main"].adds = {}
    /\ 2 \in DOMAIN rb.rebased
    /\ rb.view.branches["dev"].adds = {rb.rebased[2]}
    /\ rb.view.checkout \notin DOMAIN rb.before.commits
    /\ rb.commits[rb.view.checkout].parent_ids = {root_commit_id}

\* commit 2 on commit 1, checked out, was abandoned: the checkout is at 1
C17_WitnessParent ==
    /\ rb.did = "rebase_descendants"
    /\ rb.before.abandoned_commits = {2}
    /\ rb.before.view.checkout = 2
    /\ rb.before.commits[2].parent_ids = {1}
    /\ rb.view.checkout = 1

\* the commits a rebase wrote in place of commits of the repository before it
Replacements == {n \in WrittenByRewrite : rb.commits[n].predecessors # {}}

Reachable ==
    LET roots == rb.view.head_ids \cup {rb.view.checkout}
                 \cup UNION {rb.view.branches[n].adds \cup rb.view.branches[n].removes :
                               n \in BranchNames}
    IN  UNION {index_ancestors(rb.commits, r) : r \in roots}

Live(c) == IF c \in DOMAIN rb.rebased THEN rb.rebased[c] ELSE c

\* the commits that stand for the commits S, those that are ancestors of
\* others left out
LiveParents(S) == index_heads(rb.commits, {Live(p) : p \in S})

\* the roots of the targets
TargetRoots == {r \in rb.targets : rb.before.commits[r].parent_ids \cap rb.targets = {}}

\* C18 as claimed: after parallelize(T) every target has as its parents the
\* parents of the roots of T that are outside T, the same for all targets.
C18_TargetsOnParentsOfRoots ==
    rb.did = "parallelize" =>
       \A t \in rb.targets :
          rb.commits[Live(t)].parent_ids =
             LiveParents(UNION {rb.before.commits[r].parent_ids : r \in TargetRoots}
                            \ rb.targets)

\* target t and the targets t descended from through targets only
RECURSIVE TargetsBelow(_)
TargetsBelow(t) ==
    {t} \cup UNION {TargetsBelow(p) :
                      p \in rb.before.commits[t].parent_ids \cap rb.targets}

\* C18: after parallelize(T) every target has as its parents its own parents
\* outside T and those of the targets it descended from through targets, a
\* parent that is an ancestor of another left out; the targets that descend
\* from the same roots get the same parents.
C18_TargetsOnOuterParents ==
    rb.did = "parallelize" =>
       \A t \in rb.targets :
          rb.commits[Live(t)].parent_ids =
             LiveParents(UNION {rb.before.commits[s].parent_ids : s \in TargetsBelow(t)}
                            \ rb.targets)

\* parallelize of the commits 2, 3 and the merge 6 of 3 and 5: 2 stays on 1,
\* 3 moves to 1, and the merge keeps its parent 5 and gets 1 for 3
C18_Witness ==
    /\ rb.did = "parallelize"
    /\ rb.targets = {2, 3, 6}
    /\ 6 \in DOMAIN rb.before.commits
    /\ rb.before.commits[6].parent_ids = {3, 5}
    /\ rb.before.commits[3].parent_ids = {2}
    /\ rb.commits[2].parent_ids = {1}
    /\ rb.commits[Live(3)].parent_ids = {1}
    /\ rb.commits[Live(6)].parent_ids = {1, 5}


\* the commits outside the targets that had a target as a parent
TargetChildren ==
    {c \in DOMAIN rb.before.commits \ rb.targets :
        rb.before.commits[c].parent_ids \cap rb.targets # {}}

\* C19: after parallelize(T) every child of a target that is no target has
\* as its parents its parents outside T and the targets that were among its
\* ancestors, each as rewritten, a parent that is an ancestor of another
\* left out.
C19_ChildOnTargetAncestors ==
    rb.did = "parallelize" =>
       \A c \in TargetChildren :
          rb.commits[Live(c)].parent_ids =
             LiveParents((rb.before.commits[c].parent_ids \ rb.targets)
                            \cup (index_ancestors(rb.before.commits, c) \cap rb.targets))

\* the chain 1, 2, 3, 4 parallelized, with 5 a child of 2 and 6 a child of 4:
\* 5 is replaced by a merge of 1 and 2, 6 by a merge of all four
C19_Witness ==
    /\ rb.did = "parallelize"
    /\ rb.targets = {1, 2, 3, 4}
    /\ 6 \in DOMAIN rb.before.commits
    /\ rb.before.commits[5].parent_ids = {2}
    /\ rb.before.commits[6].parent_ids = {4}
    /\ 5 \in DOMAIN rb.rebased
    /\ rb.commits[rb.rebased[5]].parent_ids = {1, Live(2)}
    /\ Cardinality(rb.commits[rb.rebased[5]].parent_ids) = 2
    /\ rb.commits[Live(6)].parent_ids = {1, Live(2), Live(3), Live(4)}

\* the chain 1, 2, 3 parallelized, with 5 a merge of 2 and 4: 5 is replaced
\* by a merge of 1, 2 and 4
C19_WitnessMerge ==
    /\ rb.did = "parallelize"
    /\ rb.targets = {1, 2, 3}
    /\ 5 \in DOMAIN rb.before.commits
    /\ rb.before.commits[5].parent_ids = {2, 4}
    /\ 5 \in DOMAIN rb.rebased
    /\ rb.commits[rb.rebased[5]].parent_ids = {1, Live(2), 4}
    /\ Cardinality(rb.commits[rb.rebased[5]].parent_ids) = 3


\* C20: parallelize of targets none of which has a parent among the targets
\* rewrites no commit, leaves every commit and the view as they were and
\* reports "Nothing changed.", also when a target is an ancestor of another
\* through commits that are no targets.
C20_DisconnectedNothingChanged ==
    (/\ rb.did = "parallelize"
     /\ \A t \in rb.targets : rb.before.commits[t].parent_ids \cap rb.targets = {})
       => /\ rb.message = "Nothing changed."
          /\ DOMAIN rb.rebased = {}
          /\ rb.commits = rb.before.commits
          /\ rb.view = rb.before.view

\* the chain 1, 2, 3 with the targets 1 and 3: nothing changed
C20_Witness ==
    /\ rb.did = "parallelize"
    /\ rb.targets = {1, 3}
    /\ rb.before.commits[2].parent_ids = {1}
    /\ rb.before.commits[3].parent_ids = {2}
    /\ rb.message = "Nothing changed."
    /\ rb.commits = rb.before.commits
    /\ rb.view = rb.before.view


\* the parallelize met the case of the multiple-heads guard
HeadsDiffer == heads_have_different_children(rb.before.commits, rb.targets)

C21_WitnessOneWithChildren ==
    /\ rb.did = "parallelize"
    /\ rb.targets = {1, 2}
    /\ 3 \in DOMAIN rb.before.commits
    /\ rb.before.commits[2].parent_ids = {1}
    /\ rb.before.commits[3].parent_ids = {1}
    /\ rb.message = ""
    /\ rb.commits[Live(2)].parent_ids = {root_commit_id}


\* C22: parallelize of the targets once more, as the first run left them,
\* rewrites nothing: the commits, the refs, the heads and the checkout are
\* the ones the first run left.
C22_ParallelizeIdempotent ==
    rb.did = "parallelize again" =>
       /\ DOMAIN rb.rebased = {}
       /\ rb.commits = rb.before.commits
       /\ rb.view = rb.before.view

\* the second run on the chain 1, 2, 3, 4, which the first run had put on
\* the root, with replacements for 2, 3, 4 and for the children 5 and 6
C22_Witness ==
    /\ rb.did = "parallelize again"
    /\ Cardinality(rb.targets) = 4
    /\ 1 \in rb.targets
    /\ Cardinality(DOMAIN rb.before.commits) = 12
    /\ \A t \in rb.targets : rb.commits[t].parent_ids = {root_commit_id}
    /\ rb.commits = rb.before.commits


-----------------------------------------------------------------------------
(* SpecCheckOut: check_out in a repository whose store has the commits of an
   earlier transaction *)

\* the repository after init and a transaction that wrote the commits 2 and
\* 3 and was dropped: the commits are in the backend store
InitCheckOut ==
    /\ store = store_write_commit(store_write_commit({root_commit_id, 1}, 2), 3)
    /\ viewStore = {root_view}
    /\ opStore = (0 :> root_operation)
    /\ opHeads = {0}
    /\ pc = [p \in Procs |-> "idle"]
    /\ repo = [p \in Procs |-> 0]
    /\ mr = [p \in Procs |-> NoMut]
    /\ fin = [p \in Procs |-> NoFin]
    /\ last = [p \in Procs |-> NoLast]
    /\ steps = 0
    /\ started = 0
    /\ everHead = {0}
    /\ rb = NoRb
    /\ fs = NoFs
    /\ ro = NoRo
    /\ res = NoRes

NextCheckOut ==
    \/ StartTransaction("p1")
    \/ Drop("p1")
    \/ \E c \in CommitIds : SetCheckout("p1", c)
    \/ \E c \in CommitIds : CheckOut("p1", c)
    \/ \E c \in CommitIds : CheckOutPanic("p1", c)
    \/ Commit("p1")

SpecCheckOut == InitCheckOut /\ [][NextCheckOut]_vars

\* a call of check_out(c), whether it returns or panics
CheckOutCalled(c) == CheckOut("p1", c) \/ CheckOutPanic("p1", c)

\* the call returned: the transaction goes on
CheckOutCompleted == pc'["p1"] = "tx" /\ last'["p1"].op = "check_out"

\* C23 as claimed: check_out records the current checkout as abandoned
\* exactly when it is empty and open, and completes whatever the current
\* checkout is.
C23_AbandonsEmptyOpenCheckout ==
    [][\A c \in CommitIds :
          CheckOutCalled(c) =>
             LET current == mr["p1"].view.checkout
             IN  /\ CheckOutCompleted
                 /\ mr'["p1"].abandoned_commits =
                       IF is_empty(current) /\ is_open(current)
                       THEN mr["p1"].abandoned_commits \cup {current}
                       ELSE mr["p1"].abandoned_commits]_vars

\* C23: check_out of an open current checkout completes and records the
\* current checkout as abandoned exactly when it is empty; a current checkout
\* that is not open makes the call panic, and the transaction is lost.
C23_AbandonsEmptyCheckout ==
    [][\A c \in CommitIds :
          CheckOutCalled(c) =>
             LET current == mr["p1"].view.checkout
             IN  IF is_open(current)
                 THEN /\ CheckOutCompleted
                      /\ mr'["p1"].abandoned_commits =
                            IF is_empty(current)
                            THEN mr["p1"].abandoned_commits \cup {current}
                            ELSE mr["p1"].abandoned_commits
                 ELSE /\ last'["p1"].op = "check_out_panic"
                      /\ pc'["p1"] = "idle"
                      /\ mr'["p1"] = NoMut]_vars

\* check_out left the open commit 3, which is not empty: nothing is
\* recorded as abandoned
C23_Witness ==
    /\ last["p1"] = Did("check_out", "", 1, 3)
    /\ ~ is_empty(3) /\ is_open(3)
    /\ mr["p1"].abandoned_commits = {}
    /\ mr["p1"].view.checkout = 1

\* check_out left the open and empty commit 1, which is recorded
C23_WitnessEmpty ==
    /\ last["p1"] = Did("check_out", "", 3, 1)
    /\ is_empty(1) /\ is_open(1)
    /\ mr["p1"].abandoned_commits = {1}

\* check_out was called with the closed commit 2 checked out
C23_WitnessPanic ==
    /\ last["p1"] = Did("check_out_panic", "", 1, -1)
    /\ pc["p1"] = "idle"


\* C24: a check_out(commit) that returns makes the checkout the commit
\* itself when the commit is open, and writes no commit; otherwise it makes
\* it a commit it has written, which is open, has the commit as its single
\* parent and has the commit's tree, so that it is empty.
C24_CheckoutIsOpenCommit ==
    [][\A c \in CommitIds :
          (CheckOutCalled(c) /\ CheckOutCompleted) =>
             LET new == mr'["p1"].view.checkout
             IN  /\ is_open(new)
                 /\ IF is_open(c)
                    THEN new = c /\ store' = store
                    ELSE /\ new \notin store
                         /\ store' = store \cup {new}
                         /\ parent_ids(new) = {c}
                         /\ is_empty(new)
                         /\ new \in mr'["p1"].index]_vars

\* check_out of the closed commit 2 wrote the open commit 4 on it and
\* checked it out
C24_Witness ==
    /\ last["p1"].op = "check_out"
    /\ last["p1"].x = 2
    /\ ~ is_open(2)
    /\ mr["p1"].view.checkout = 4
    /\ 4 \in store
    /\ parent_ids(4) = {2}

\* check_out of the open commit 3 checked out 3 itself
C24_WitnessOpen ==
    /\ last["p1"].op = "check_out"
    /\ last["p1"].x = 3
    /\ is_open(3)
    /\ mr["p1"].view.checkout = 3

\* C40: after check_out(commit) has returned, the checkout is no commit that
\* the transaction has recorded as abandoned, also when commit is the
\* current checkout itself and that checkout is empty and open.
C40_CheckoutNotAbandoned ==
    (pc["p1"] = "tx" /\ last["p1"].op = "check_out") =>
       mr["p1"].view.checkout \notin mr["p1"].abandoned_commits


-----------------------------------------------------------------------------
(* SpecIndex: threads sharing one ReadonlyRepo call index(); reindex() needs
   the repository for itself *)

InitIndex ==
    /\ store = {root_commit_id, 1}
    /\ viewStore = {root_view}
    /\ opStore = (0 :> root_operation)
    /\ opHeads = {0}
    /\ pc = [p \in Procs |-> "idle"]
    /\ repo = [p \in Procs |-> 0]
    /\ mr = [p \in Procs |-> NoMut]
    /\ fin = [p \in Procs |-> NoFin]
    /\ last = [p \in Procs |-> NoLast]
    /\ steps = 0
    /\ started = 0
    /\ everHead = {0}
    /\ rb = NoRb
    /\ fs = NoFs
    /\ ro \in {ReadonlyRepo_new(None), ReadonlyRepo_new(1)}
    /\ res = NoRes

indexVars ==
    <<store, viewStore, opStore, opHeads, pc, repo, mr, fin, last, steps, started,
      everHead, rb, res, fs>>

\* self.index.lock()
IndexLock(t) ==
    /\ ro.at[t] = "idle"
    /\ ro.calls[t] < MaxCalls
    /\ ro.lock = ""
    /\ ro' = [ro EXCEPT !.lock = t, !.at[t] = "locked", !.calls[t] = @ + 1]
    /\ UNCHANGED indexVars

\* the cache is looked at and filled under the lock
IndexGet(t) ==
    /\ ro.at[t] = "locked"
    /\ ro' = [index(ro) EXCEPT !.at[t] = "got"]
    /\ UNCHANGED indexVars

\* the reference is returned and the lock is released
IndexReturn(t) ==
    /\ ro.at[t] = "got"
    /\ ro' = [ro EXCEPT !.ref[t] = ro.index, !.lock = "", !.at[t] = "idle"]
    /\ UNCHANGED indexVars

\* the caller lets go of the reference
IndexRelease(t) ==
    /\ ro.at[t] = "idle"
    /\ ro.ref[t] # None
    /\ ro' = [ro EXCEPT !.ref[t] = None]
    /\ UNCHANGED indexVars

\* reindex(&mut self): no other call is under way and no reference is held
Reindex(t) ==
    /\ \A u \in Threads : ro.at[u] = "idle" /\ ro.ref[u] = None
    /\ ro.reinit < MaxReindex
    /\ ro' = [reindex(ro) EXCEPT !.ref[t] = reindex(ro).index]
    /\ UNCHANGED indexVars

NextIndex ==
    \E t \in Threads :
       \/ IndexLock(t)
       \/ IndexGet(t)
       \/ IndexReturn(t)
       \/ IndexRelease(t)
       \/ Reindex(t)

SpecIndex == InitIndex /\ [][NextIndex]_vars

\* C25: the calls of index() on one snapshot load the index from the
\* IndexStore at most once, and not at all when the snapshot was made with
\* its index; the references held are all to the index in the cache; the
\* cache, once filled, changes only in reindex, and never while a reference
\* is held.
C25_IndexLoadedOnce ==
    [][/\ ro'.loads <= (IF ro.given THEN 0 ELSE 1) + ro'.reinit
       /\ \A t \in Threads : ro'.ref[t] # None => ro'.ref[t] = ro'.index
       /\ (\E t \in Threads : ro.ref[t] # None) => ro'.index = ro.index
       /\ (ro.index # None /\ ro'.reinit = ro.reinit) => ro'.index = ro.index]_vars

\* both threads hold a reference to the one index that was loaded, each
\* after two calls
C25_Witness ==
    /\ ~ ro.given
    /\ ro.reinit = 0
    /\ ro.loads = 1
    /\ ro.calls = [t \in Threads |-> 2]
    /\ ro.ref = [t \in Threads |-> ro.index]
    /\ ro.index # None
    /\ ro.lock = ""

-----------------------------------------------------------------------------
(* SpecResolve: `jj resolve` runs the merge tool on one conflicted file; the
   tool is the fake editor of the tests, which writes the output file and
   exits with 0 or, on `fail`, with 1 *)

RunLens == {3, MinMarkerLen, MaxRun}

\* the conflicts of the tests, and the same with a line that starts with a
\* run of marker characters on one side or in the base
TestConflicts ==
    {Conflict2(<<Word("a")>>, <<Word("base")>>, <<Word("b")>>),
     Conflict2(<<Word("a")>>, <<>>, <<Word("b")>>),
     Conflict2(<<Word("a"), Word("a2")>>, <<Word("base"), Word("base2")>>,
               <<Word("b"), Word("b2")>>),
     Conflict2(<<RunLine("<", MinMarkerLen, "a")>>, <<RunLine("=", MinMarkerLen, "base")>>,
               <<RunLine(">", MinMarkerLen, "b")>>)}
    \cup {Conflict2(<<RunLine(c, n, "a")>>, <<Word("base")>>, <<Word("b")>>) :
             c \in MarkerChars, n \in RunLens}
    \cup {Conflict2(<<Word("a")>>, <<RunLine(c, n, "base")>>, <<Word("b")>>) :
             c \in MarkerChars, n \in RunLens}
    \cup {Conflict2(<<Word("a")>>, <<Word("base")>>, <<RunLine(c, n, "b")>>) :
             c \in MarkerChars, n \in RunLens}

\* the conflicts the tool of the tests writes
ToolConflicts ==
    {Conflict2(<<Word("fake")>>, <<Word("some")>>, <<Word("conflict")>>),
     Conflict2(<<RunLine("<", MinMarkerLen, "A")>>, <<RunLine("=", MinMarkerLen, "BASE")>>,
               <<RunLine(">", MinMarkerLen, "B")>>)}

\* markers that are no hunk: no ||||||| line
invalid_markers ==
    <<marker("<", MinMarkerLen, "this isn't diff3 style!"), Word("some"),
      Rep("=", MinMarkerLen), Word("conflict"), Rep(">", MinMarkerLen)>>

\* what the tool may write: nothing, a resolution, markers of either length
\* in any style (the text it was given among them), markers that are no hunk
Payloads(r) ==
    {<<>>, <<Word("resolution")>>, invalid_markers}
    \cup {materialize(v, st, n) :
             v \in ToolConflicts \cup {r.conflict}, st \in Styles,
             n \in {MinMarkerLen, r.len}}

\* the exit statuses of the fake editor
ExitCodes == {0, 1}

InitResolve ==
    /\ store = {root_commit_id, 1}
    /\ viewStore = {root_view}
    /\ opStore = (0 :> root_operation)
    /\ opHeads = {0}
    /\ pc = [p \in Procs |-> "idle"]
    /\ repo = [p \in Procs |-> 0]
    /\ mr = [p \in Procs |-> NoMut]
    /\ fin = [p \in Procs |-> NoFin]
    /\ last = [p \in Procs |-> NoLast]
    /\ steps = 0
    /\ started = 0
    /\ everHead = {0}
    /\ rb = NoRb
    /\ fs = NoFs
    /\ ro = NoRo
    /\ res \in {resolve_new(v, st, edits, marker_arg, codes) :
                   v \in TestConflicts, st \in Styles, edits \in BOOLEAN,
                   marker_arg \in BOOLEAN, codes \in {{}, {1}}}

resolveVars ==
    <<store, viewStore, opStore, opHeads, pc, repo, mr, fin, last, steps, started,
      everHead, rb, ro, fs>>

\* the command writes the output file and starts the tool
ResolveStart ==
    /\ res.pc = "start"
    /\ res' = resolve_start(res)
    /\ UNCHANGED resolveVars

\* fake-editor `write`: the output file is replaced
EditorWrite(payload) ==
    /\ res.pc = "tool"
    /\ res.wrote < MaxWrites
    /\ res' = [res EXCEPT !.output = payload, !.wrote = @ + 1]
    /\ UNCHANGED resolveVars

\* the fake editor comes to the end of its script (0) or to `fail` (1)
EditorExit(code) ==
    /\ res.pc = "tool"
    /\ res' = [res EXCEPT !.pc = "exited", !.exit = code]
    /\ UNCHANGED resolveVars

\* the command reads the exit status and the output file
ResolveFinish ==
    /\ res.pc = "exited"
    /\ res' = read_output(res)
    /\ UNCHANGED resolveVars

NextResolve ==
    \/ ResolveStart
    \/ \E payload \in Payloads(res) : EditorWrite(payload)
    \/ \E code \in ExitCodes : EditorExit(code)
    \/ ResolveFinish

SpecResolve == InitResolve /\ [][NextResolve]_vars

-----------------------------------------------------------------------------
(* Claims checked under SpecResolve *)

Finished == res.pc = "done"

\* the exit status is 0 or one of merge-conflict-exit-codes
Accepted == res.exit = 0 \/ res.exit \in res.codes

Listed == res.exit # 0 /\ res.exit \in res.codes

Unchanged == res.output = <<>> \/ res.output = res.initial

Parsed == parse_conflict(res.output, conflict_marker_len(res))

\* the command failed and wrote nothing: the file is as it was
Refused(error) == res.error = error /\ ~ res.committed /\ res.file = res.before

\* the command succeeded and the file has the value v
Taken(v) == res.error = "" /\ res.committed /\ res.file = v

C26_WitnessInvalid ==
    /\ Finished
    /\ Listed
    /\ res.output = invalid_markers
    /\ Refused("did not produce valid conflict markers")

C27_WitnessEmptied ==
    /\ Finished
    /\ res.exit = 0
    /\ res.edits
    /\ res.wrote = 1
    /\ res.initial # <<>>
    /\ res.output = <<>>
    /\ res.error = "output unchanged or empty"

\* the output holds a well-formed hunk at the length it is parsed with
LeavesMarkers == ~ is_resolved(Parsed)

\* C28: when the tool exits with 0 and leaves conflict markers in the
\* output: if it does not edit conflict markers the output file was empty at
\* the start and the file is resolved, its content the output with the
\* markers; if it edits conflict markers the output file was the materialized
\* conflict at the start, the file is still conflicted, and its value is the
\* one parsed from the output.
C28_MarkersLiteralOrParsed ==
    (Finished /\ res.exit = 0 /\ LeavesMarkers) =>
        IF res.edits
        THEN /\ res.initial = materialize(res.before, res.style, res.len)
             /\ ~ is_resolved(res.file)
             /\ res.file = Parsed
             /\ res.output # res.initial => Taken(Parsed)
        ELSE /\ res.initial = <<>>
             /\ Taken(Resolved(res.output))
             /\ is_resolved(res.file)

\* the tool edits conflict markers and wrote the markers of another conflict
C28_Witness ==
    /\ Finished
    /\ res.exit = 0
    /\ res.edits
    /\ LeavesMarkers
    /\ res.output # res.initial
    /\ res.file = Conflict2(<<Word("fake")>>, <<Word("some")>>, <<Word("conflict")>>)
    /\ res.committed

\* the tool does not edit conflict markers and wrote the same markers
C28_WitnessLiteral ==
    /\ Finished
    /\ res.exit = 0
    /\ ~ res.edits
    /\ LeavesMarkers
    /\ res.initial = <<>>
    /\ res.file = Resolved(res.output)
    /\ res.committed

RoundTrip(v) ==
    \A st \in Styles :
        parse_conflict(materialize(v, st, choose_marker_len(v)), choose_marker_len(v)) = v

NumMarkers(st) == IF st = "snapshot" THEN 5 ELSE 4

\* C30: the length of the markers a conflict is materialized with is at
\* least 7 and more than the longest run of marker characters in a side or
\* the base; every marker line of the text starts with a run of exactly that
\* length and no other line does; contents with runs of 7 get markers of 11.
C30_MarkerLength ==
    res.pc \in {"tool", "exited", "done"} =>
        /\ res.len >= 7
        /\ res.len > max_existing_run(res.before)
        /\ max_existing_run(res.before) = 7 => res.len = 11
        /\ res.pc = "tool" => \A st \in Styles :
              LET text == materialize(res.before, st, res.len)
              IN  /\ \A i \in DOMAIN text : leading_run(text[i]) <= res.len
                  /\ Cardinality({i \in DOMAIN text : leading_run(text[i]) = res.len})
                        = NumMarkers(st)
                  /\ leading_run(text[1]) = res.len
                  /\ leading_run(text[Len(text)]) = res.len

\* the conflict of the test, whose contents start with runs of 7, was
\* materialized for the tool with markers of 11
C30_Witness ==
    /\ res.pc = "tool"
    /\ res.edits
    /\ res.style = "snapshot"
    /\ res.before = Conflict2(<<RunLine("<", 7, "a")>>, <<RunLine("=", 7, "base")>>,
                              <<RunLine(">", 7, "b")>>)
    /\ max_existing_run(res.before) = 7
    /\ res.len = 11
    /\ res.initial[1] = marker("<", 11, "Conflict 1 of 1")

\* the tool saw the materialized markers or was given their length
KnowsLength == res.edits \/ res.marker_arg

\* the lines of a text that start with a run of marker characters shorter
\* than L, as `<<<<<<< A` with L = 11
ShortRuns(text, L) ==
    {text[i] : i \in {j \in DOMAIN text :
                        leading_run(text[j]) >= MinMarkerLen /\ leading_run(text[j]) < L}}

LinesOf(v) == UNION {Range(c) : c \in contents_of(v)}

\* C31: when the output is parsed as markers and the tool edited the
\* materialized markers of length L or was given $marker_length = L, only
\* runs of L or more are markers: a conflict written with markers of L whose
\* sides have lines with shorter runs is read back with those lines as
\* content, and markers shorter than L make no conflict; when the tool did
\* neither, markers of 7 or more are read.
C31_ParsedAtMarkerLength ==
    (Finished /\ Accepted /\ ~ Unchanged /\ (res.edits \/ Listed)) =>
        /\ res.committed =>
              res.file = parse_conflict(res.output, IF KnowsLength THEN res.len ELSE 7)
        /\ \A v \in ToolConflicts, st \in Styles :
              /\ (KnowsLength /\ res.output = materialize(v, st, res.len)
                     /\ max_existing_run(v) + 1 < res.len) =>
                    /\ Taken(v)
                    /\ ShortRuns(res.output, res.len) \subseteq LinesOf(res.file)
              /\ (KnowsLength /\ res.output = materialize(v, st, 7) /\ 7 < res.len) =>
                    ~ Taken(v) /\ (res.committed => is_resolved(res.file))
              /\ (~ KnowsLength /\ res.output = materialize(v, st, 7)
                     /\ max_existing_run(v) < 7) =>
                    Taken(v)

\* the tool was given $marker_length = 11, wrote markers of 11 around the
\* lines `<<<<<<< A`, `======= BASE`, `>>>>>>> B` and exited with the listed
\* code: these lines are the contents of the conflict
C31_Witness ==
    /\ Finished
    /\ ~ res.edits
    /\ res.marker_arg
    /\ Listed
    /\ res.len = 11
    /\ res.output = materialize(
          Conflict2(<<RunLine("<", MinMarkerLen, "A")>>, <<RunLine("=", MinMarkerLen, "BASE")>>,
                    <<RunLine(">", MinMarkerLen, "B")>>), "git", 11)
    /\ Taken(Conflict2(<<RunLine("<", MinMarkerLen, "A")>>, <<RunLine("=", MinMarkerLen, "BASE")>>,
                       <<RunLine(">", MinMarkerLen, "B")>>))
    /\ ShortRuns(res.output, res.len) # {}

\* the tool was given neither the markers nor their length and wrote markers
\* of 7 where the materialized ones have 11
C31_WitnessSeven ==
    /\ Finished
    /\ ~ KnowsLength
    /\ Listed
    /\ res.len = 11
    /\ res.output = materialize(
          Conflict2(<<Word("fake")>>, <<Word("some")>>, <<Word("conflict")>>), "git", 7)
    /\ Taken(Conflict2(<<Word("fake")>>, <<Word("some")>>, <<Word("conflict")>>))

-----------------------------------------------------------------------------
(* SpecSides: `jj resolve` on files whose conflicts have more than 2 sides in
   the tree *)

\* the files of test_too_many_parents and test_simplify_conflict_sides, and
\* other values of 2, 3 and 4 sides
SidedConflicts ==
    {FileMerge(<<<<Word("a")>>, <<Word("b")>>, <<Word("c")>>>>,
               <<<<Word("base")>>, <<Word("base")>>>>),
     FileMerge(<<<<Word("1")>>, <<Word("2")>>, <<Word("base")>>, <<Word("base")>>>>,
               <<<<Word("base")>>, <<Word("base")>>, <<Word("base")>>>>),
     FileMerge(<<<<Word("base")>>, <<Word("base")>>, <<Word("1")>>, <<Word("2")>>>>,
               <<<<Word("base")>>, <<Word("base")>>, <<Word("base")>>>>),
     FileMerge(<<<<Word("a")>>, <<Word("base")>>, <<Word("b")>>>>,
               <<<<Word("base")>>, <<Word("base")>>>>),
     FileMerge(<<<<Word("a")>>, <<Word("b")>>, <<Word("c")>>>>,
               <<<<Word("base")>>, <<Word("c")>>>>),
     FileMerge(<<<<Word("a")>>, <<Word("b")>>, <<Word("c")>>, <<Word("d")>>>>,
               <<<<Word("base")>>, <<Word("base")>>, <<Word("c")>>>>),
     Conflict2(<<Word("a")>>, <<Word("base")>>, <<Word("b")>>)}

InitSides ==
    /\ store = {root_commit_id, 1}
    /\ viewStore = {root_view}
    /\ opStore = (0 :> root_operation)
    /\ opHeads = {0}
    /\ pc = [p \in Procs |-> "idle"]
    /\ repo = [p \in Procs |-> 0]
    /\ mr = [p \in Procs |-> NoMut]
    /\ fin = [p \in Procs |-> NoFin]
    /\ last = [p \in Procs |-> NoLast]
    /\ steps = 0
    /\ started = 0
    /\ everHead = {0}
    /\ rb = NoRb
    /\ fs = NoFs
    /\ ro = NoRo
    /\ res \in {resolve_new(v, st, edits, FALSE, codes) :
                   v \in SidedConflicts, st \in Styles, edits \in BOOLEAN,
                   codes \in {{}, {1}}}

SpecSides == InitSides /\ [][NextResolve]_vars

\* how often x is among the members of a sequence
Count(seq, x) == Cardinality({i \in DOMAIN seq : seq[i] = x})

\* the sides that are left when every base cancels one equal side
SidesLeft(v) ==
    LET values == Range(v.adds)
        left(x) == IF Count(v.adds, x) > Count(v.removes, x)
                   THEN Count(v.adds, x) - Count(v.removes, x) ELSE 0
        RECURSIVE sum(_)
        sum(S) == IF S = {} THEN 0
                  ELSE LET x == CHOOSE x \in S : TRUE IN left(x) + sum(S \ {x})
    IN  sum(values)

\* C32: a file whose conflict still has more than 2 sides after the terms
\* that are both side and base have cancelled is refused with "at most 2
\* sides are supported" and nothing changes; a file that has 2 sides left is
\* accepted, whatever its sides in the tree, and the tool gets the base, the
\* left and the right of the simplified conflict.
C32_AtMostTwoSides ==
    res.pc \notin {"none", "start"} =>
        IF SidesLeft(res.before) > 2
        THEN /\ Finished
             /\ Refused("at most 2 sides are supported")
             /\ res.wrote = 0
        ELSE /\ res.error # "at most 2 sides are supported"
             /\ Len(res.conflict.adds) = 2
             /\ Len(res.conflict.removes) = 1
             /\ \A x \in Range(res.conflict.adds) :
                   Count(res.before.adds, x) > Count(res.before.removes, x)
             /\ Count(res.before.removes, res.conflict.removes[1])
                   > Count(res.before.adds, res.conflict.removes[1])
             /\ res.edits => res.initial = materialize(res.conflict, res.style, res.len)

\* fileB of the test, 4 sides in the tree: the tool got base, 1 and 2 and
\* resolved the file
C32_Witness ==
    /\ Finished
    /\ Len(res.before.adds) = 4
    /\ res.before.adds[1] = <<Word("base")>>
    /\ res.conflict = Conflict2(<<Word("1")>>, <<Word("base")>>, <<Word("2")>>)
    /\ Taken(Resolved(<<Word("resolution")>>))

\* the file of test_too_many_parents: 3 sides, refused
C32_WitnessRefused ==
    /\ Finished
    /\ res.before = FileMerge(<<<<Word("a")>>, <<Word("b")>>, <<Word("c")>>>>,
                              <<<<Word("base")>>, <<Word("base")>>>>)
    /\ Refused("at most 2 sides are supported")

-----------------------------------------------------------------------------
(* SpecResolveAll: `jj resolve` without a path runs the tool on every
   conflicted file of the commit, in path order *)

\* file k of the commit: base k, a k and b k
FileNo(k) ==
    Conflict2(<<<<"a", ToString(k)>>>>, <<<<"base", ToString(k)>>>>,
              <<<<"b", ToString(k)>>>>)

InitResolveAll ==
    /\ store = {root_commit_id, 1}
    /\ viewStore = {root_view}
    /\ opStore = (0 :> root_operation)
    /\ opHeads = {0}
    /\ pc = [p \in Procs |-> "idle"]
    /\ repo = [p \in Procs |-> 0]
    /\ mr = [p \in Procs |-> NoMut]
    /\ fin = [p \in Procs |-> NoFin]
    /\ last = [p \in Procs |-> NoLast]
    /\ steps = 0
    /\ started = 0
    /\ everHead = {0}
    /\ rb = NoRb
    /\ fs = NoFs
    /\ ro = NoRo
    /\ res \in {resolve_all_new([k \in 1..n |-> FileNo(k)], "diff", edits, FALSE, codes) :
                   n \in 1..MaxFiles, edits \in BOOLEAN, codes \in {{}, {1}}}

\* the tool succeeded on a file that is not the last
ResolveNext ==
    /\ res.pc = "done"
    /\ res.error = ""
    /\ res.paths # <<>>
    /\ res' = next_file(res)
    /\ UNCHANGED resolveVars

\* the tool succeeded on the last file, or the command stops at an error
ResolveEnd ==
    /\ res.pc = "done"
    /\ res.error # "" \/ res.paths = <<>>
    /\ res' = resolve_end(res)
    /\ UNCHANGED resolveVars

NextResolveAll ==
    \/ NextResolve
    \/ ResolveNext
    \/ ResolveEnd

SpecResolveAll == InitResolveAll /\ [][NextResolveAll]_vars

Ended == res.pc = "ended"

\* the file the command stopped at
StoppedAt == Len(res.tree) + 1

C33_WitnessFirst ==
    /\ Ended
    /\ Len(res.orig) = 2
    /\ res.error = "tool exited with exit status"
    /\ StoppedAt = 1
    /\ res.final = res.orig
    /\ ~ res.new_commit

-----------------------------------------------------------------------------
(* SpecStore: a repository directory, of the old or the new format, is
   opened by RepoLoader::init, one file system call at a time *)

\* paths of git repositories, as the old store file has them after "git: "
GitPaths ==
    {<<>>, <<"/", "r">>, <<".", ".", "/", "g">>, <<" ", "g">>, <<"g", "\n">>,
     <<"g", "i", "t", ":", " ">>}

\* contents of a store file: "git: <path>", and contents of another kind
StoreContents ==
    {GitPrefix \o path : path \in GitPaths}
    \cup {<<>>, <<"g", "i", "t", ":">>, <<"l", "o", "c", "a", "l">>}

InitStore ==
    /\ store = {root_commit_id, 1}
    /\ viewStore = {root_view}
    /\ opStore = (0 :> root_operation)
    /\ opHeads = {0}
    /\ pc = [p \in Procs |-> "idle"]
    /\ repo = [p \in Procs |-> 0]
    /\ mr = [p \in Procs |-> NoMut]
    /\ fin = [p \in Procs |-> NoFin]
    /\ last = [p \in Procs |-> NoLast]
    /\ steps = 0
    /\ started = 0
    /\ everHead = {0}
    /\ rb = NoRb
    /\ ro = NoRo
    /\ res = NoRes
    /\ fs \in {RepoDir(File(c), git, NoNode, NoNode) :
                  c \in StoreContents, git \in {NoNode, Dir("git"), File(<<"x">>)}}
              \cup {RepoDir(Dir("store"), NoNode, sg, File(path)) :
                       sg \in {NoNode, Dir("git")}, path \in GitPaths}

storeVars ==
    <<store, viewStore, opStore, opHeads, pc, repo, mr, fin, last, steps, started,
      everHead, rb, ro, res>>

\* store_path.is_file(): the old format is read, the new one is loaded
OpenRepo ==
    /\ fs.at \in {"closed", "loaded"}
    /\ fs.opens < MaxOpens
    /\ fs' = IF is_file(fs.store)
             THEN [fs EXCEPT !.at = "read", !.opens = @ + 1, !.buf = fs.store.contents,
                             !.upgrades = @ + 1]
             ELSE [fs EXCEPT !.at = "load", !.opens = @ + 1]
    /\ UNCHANGED storeVars

\* assert!(contents.starts_with("git: ")) fails
UpgradePanic ==
    /\ fs.at = "read"
    /\ ~ starts_with(fs.buf, GitPrefix)
    /\ fs' = [fs EXCEPT !.at = "panicked"]
    /\ UNCHANGED storeVars

\* fs::remove_file(&store_path)
RemoveStoreFile ==
    /\ fs.at = "read"
    /\ starts_with(fs.buf, GitPrefix)
    /\ fs' = [fs EXCEPT !.at = "removed", !.store = NoNode]
    /\ UNCHANGED storeVars

\* fs::create_dir(&store_path)
CreateStoreDir ==
    /\ fs.at = "removed"
    /\ fs' = [fs EXCEPT !.at = "created", !.store = Dir("store")]
    /\ UNCHANGED storeVars

\* fs::rename(git, store/git), when git is a directory
RenameGit ==
    /\ fs.at = "created"
    /\ fs' = IF is_dir(fs.git)
             THEN [fs EXCEPT !.at = "renamed", !.store_git = fs.git, !.git = NoNode]
             ELSE [fs EXCEPT !.at = "renamed"]
    /\ UNCHANGED storeVars

\* fs::write(store/git_target, &git_backend_path_str)
WriteGitTarget ==
    /\ fs.at = "renamed"
    /\ fs' = [fs EXCEPT !.at = "load",
                        !.git_target = File(git_backend_path_str(fs.buf))]
    /\ UNCHANGED storeVars

\* Store::load_store(repo_path.join("store")): what it finds is kept
LoadStore ==
    /\ fs.at = "load"
    /\ fs' = [fs EXCEPT !.at = "loaded", !.loaded = fs.git_target,
                        !.loaded_git = fs.store_git]
    /\ UNCHANGED storeVars

NextStore ==
    \/ OpenRepo
    \/ UpgradePanic
    \/ RemoveStoreFile
    \/ CreateStoreDir
    \/ RenameGit
    \/ WriteGitTarget
    \/ LoadStore

SpecStore == InitStore /\ [][NextStore]_vars

\* the store was a file with "git: <path>" when the directory was made
OldFormat(path) == fs.was.store = File(GitPrefix \o path)

\* C34: when a repository whose store is a file with "git: <path>" has been
\* opened, the store is a directory whose git_target has exactly <path>, a
\* directory git of before is at store/git, the store was loaded after all
\* that, and a second opening upgrades nothing and leaves the directory as
\* it is.
C34_StoreMigratedOnce ==
    [][\A path \in GitPaths :
          /\ (OldFormat(path) /\ fs'.at = "loaded") =>
                /\ fs'.store = Dir("store")
                /\ fs'.git_target = File(path)
                /\ fs'.loaded = File(path)
                /\ is_dir(fs.was.git) =>
                      /\ fs'.store_git = fs.was.git
                      /\ fs'.loaded_git = fs.was.git
                      /\ fs'.git = NoNode
                /\ ~ is_dir(fs.was.git) => fs'.git = fs.was.git /\ fs'.store_git = NoNode
                /\ fs'.upgrades = 1
          /\ (OldFormat(path) /\ fs.opens >= 1 /\ fs.at \in {"loaded", "load"}) =>
                /\ fs'.store = fs.store
                /\ fs'.git = fs.git
                /\ fs'.store_git = fs.store_git
                /\ fs'.git_target = fs.git_target
                /\ fs'.upgrades = fs.upgrades]_vars

\* a store file "git: ../g" beside a directory git was opened twice
C34_Witness ==
    /\ fs.was.store = File(GitPrefix \o <<".", ".", "/", "g">>)
    /\ fs.was.git = Dir("git")
    /\ fs.opens = 2
    /\ fs.at = "loaded"
    /\ fs.upgrades = 1
    /\ fs.git_target = File(<<".", ".", "/", "g">>)
    /\ fs.store_git = Dir("git")

-----------------------------------------------------------------------------
(* Claims on add_head, checked under Spec *)

\* process p staged add_head(last'[p].x)
AddHeadStep(p) ==
    /\ pc[p] = "tx"
    /\ steps' = steps + 1
    /\ last'[p].op = "add_head"
    /\ mr'[p] # mr[p]

\* the heads of the view are DAG-heads and cover the public heads
HeadInvariant(v) == v.head_ids = heads(v.head_ids \cup v.public_head_ids)

\* C37: on a view whose head_ids satisfy the head invariant, add_head(c)
\* followed by enforce_view_invariants yields head_ids = DAG-heads(old
\* head_ids + {c}), on the incremental and on the general branch; adding an
\* ancestor of a head leaves head_ids as they were.
C37_AddHeadYieldsDagHeads ==
    [][\A p \in Procs :
          (AddHeadStep(p) /\ HeadInvariant(mr[p].view)) =>
             enforce_view_invariants(mr'[p]).view.head_ids
                = heads(mr[p].view.head_ids \cup {last'[p].x})]_vars

====
